---- MODULE Spec2Model ----
(***************************************************************************)
(* Vendor monitoring: the drip-feed monitor cycle (src/lib/monitor) with   *)
(* the scorecard diff it relies on, over the vendor table and the audit    *)
(* log kept by the persistence layer.                                      *)
(***************************************************************************)
EXTENDS Integers, Sequences, FiniteSets, TLC

VARIABLES
    vendorTable,  \* prisma.vendor rows: id -> the four stored scan fields
    auditLog,     \* prisma.auditLog rows, in creation order
    now,          \* the wall clock, in milliseconds
    pool,         \* what generateObject may return for the documents scraped
    overlap,      \* whether the trigger layer lets two invocations overlap
    pc,           \* per invocation: where runMonitorCycle stands
    vendors,      \* per invocation: the rows findMany returned
    idx,          \* per invocation: position of the for-loop in `vendors`
    scorecard,    \* per invocation: the object generateObject returned
    validated,    \* per invocation: ScorecardSchema.parse(scorecard)
    result,       \* per invocation: the MonitorCycleResult being built
    startedAt,    \* per invocation: Date.now() read at line 24
    staleSeen,    \* per invocation: the stale rows findMany chose from
    threw,        \* per invocation: the exceptions thrown inside the loop
    calls,        \* per invocation: the collaborator calls made, in order
    rotatedAt,    \* per vendor: time of its last successful vendor.update
    inputUrl,        \* scrapeVendorDocuments: its argument
    rootUrl,         \* scrapeVendorDocuments: the origin sanitizeUrl returned
    hostname,        \* scrapeVendorDocuments: the hostname sanitizeUrl returned
    links,           \* discoverLegalPages: mapResult.links
    matched,         \* discoverLegalPages: the classified links
    discoveredPages, \* scrapeVendorDocuments: what discoverLegalPages returned
    legalPages,      \* scrapeVendorDocuments: what mergeWithFallbacks returned
    page,            \* scrapeVendorDocuments: position of the loop in legalPages
    documents,       \* scrapeVendorDocuments: the documents scraped so far
    errors,          \* scrapeVendorDocuments: the fetch errors recorded so far
    outcome,         \* scrapeVendorDocuments: the value returned or the error thrown
    spc,             \* scrapeVendorDocuments: where it stands
    clientCalls,     \* the calls made to the Firecrawl client, in order
    diffPrevious,    \* diffScorecards: its argument previous
    diffCurrent,     \* diffScorecards: its argument current
    diffReturned     \* diffScorecards: the ScorecardDiff it returned

monitorVars == <<vendorTable, auditLog, now, pool, overlap, pc, vendors, idx,
                 scorecard, validated, result, startedAt, staleSeen, threw,
                 calls, rotatedAt>>

scraperVars == <<inputUrl, rootUrl, hostname, links, matched, discoveredPages,
                 legalPages, page, documents, errors, outcome, spc,
                 clientCalls>>

diffVars == <<diffPrevious, diffCurrent, diffReturned>>

vars == <<vendorTable, auditLog, now, pool, overlap, pc, vendors, idx,
          scorecard, validated, result, startedAt, staleSeen, threw, calls,
          rotatedAt, inputUrl, rootUrl, hostname, links, matched,
          discoveredPages, legalPages, page, documents, errors, outcome, spc,
          clientCalls,
          diffPrevious, diffCurrent, diffReturned>>

(***************************************************************************)
(* Bounds of the model and constants of the program.                       *)
(***************************************************************************)
MaxTicks == 2
MaxAudit == 3

BATCH_SIZE == 2
STALE_THRESHOLD_MS == 24 * 60 * 60 * 1000

\* The clock advances between invocations in steps of one threshold, so that
\* a scan is seen at exactly the threshold's age and beyond it.
TickMs == STALE_THRESHOLD_MS

Invocations == {1, 2}

NullTime == -1
NullRisk == "null"
NullScorecard == [null |-> TRUE]

Range(s) == {s[k] : k \in 1..Len(s)}

(***************************************************************************)
(* Scorecards (src/lib/schemas/scorecard.ts).                              *)
(***************************************************************************)
RiskLevel == {"CRITICAL", "HIGH", "MEDIUM", "LOW", "NONE"}

\* The category keys in another order.
CATEGORY_KEYS_Reordered == <<"telemetryRetention", "subProcessors", "aiTraining">>

CATEGORY_KEYS == <<"aiTraining", "subProcessors", "telemetryRetention">>

Finding(title, severity) == [title |-> title, severity |-> severity]

CategoryResult(riskLevel, findings) ==
    [riskLevel |-> riskLevel, findings |-> findings]

MkScorecard(overall, ai, sub, tel, summary) ==
    [overallRiskLevel |-> overall,
     categories |-> [aiTraining |-> ai, subProcessors |-> sub,
                     telemetryRetention |-> tel],
     summary |-> summary]

IsCategoryResult(c) ==
    /\ DOMAIN c = {"riskLevel", "findings"}
    /\ c.riskLevel \in RiskLevel
    /\ \A k \in 1..Len(c.findings) :
          /\ DOMAIN c.findings[k] = {"title", "severity"}
          /\ c.findings[k].severity \in RiskLevel

\* ScorecardSchema.parse(o) succeeds exactly on these objects.
ScorecardSchemaAccepts(o) ==
    /\ DOMAIN o = {"overallRiskLevel", "categories", "summary"}
    /\ o.overallRiskLevel \in RiskLevel
    /\ DOMAIN o.categories = Range(CATEGORY_KEYS)
    /\ \A key \in Range(CATEGORY_KEYS) : IsCategoryResult(o.categories[key])

(***************************************************************************)
(* The scorecard diff (src/lib/monitor/diff.ts).                           *)
(***************************************************************************)
\* Set.add: insertion order is kept, a title already present is not added.
SetAdd(titles, t) == IF t \in Range(titles) THEN titles ELSE Append(titles, t)

\* Findings told apart by all their fields instead of by their title.
RECURSIVE AddWholeFindings(_, _, _)
AddWholeFindings(titles, findings, k) ==
    IF k > Len(findings) THEN titles
    ELSE AddWholeFindings(SetAdd(titles, findings[k]), findings, k + 1)

RECURSIVE AddFindingTitles(_, _, _)
AddFindingTitles(titles, findings, k) ==
    IF k > Len(findings) THEN titles
    ELSE AddFindingTitles(SetAdd(titles, findings[k].title), findings, k + 1)

RECURSIVE TitlesFromKey(_, _, _)
TitlesFromKey(titles, sc, k) ==
    IF k > Len(CATEGORY_KEYS) THEN titles
    ELSE TitlesFromKey(
            AddFindingTitles(titles, sc.categories[CATEGORY_KEYS[k]].findings, 1),
            sc, k + 1)

\* Titles taken from the first category only.
getFirstCategoryTitles(sc) ==
    AddFindingTitles(<<>>, sc.categories[CATEGORY_KEYS[1]].findings, 1)

getAllFindingTitles(sc) == TitlesFromKey(<<>>, sc, 1)

\* Array.prototype.filter with a "not in `other`" predicate.
RECURSIVE FilterNotIn(_, _, _)
FilterNotIn(titles, other, k) ==
    IF k > Len(titles) THEN <<>>
    ELSE (IF titles[k] \in Range(other) THEN <<>> ELSE <<titles[k]>>)
            \o FilterNotIn(titles, other, k + 1)

RECURSIVE CategoryChangesAlways(_, _, _)
\* A category loop that reports every category, changed or not.
CategoryChangesAlways(previous, current, k) ==
    IF k > Len(CATEGORY_KEYS) THEN <<>>
    ELSE LET key == CATEGORY_KEYS[k]
             prevRisk == IF previous = NullScorecard THEN NullRisk
                         ELSE previous.categories[key].riskLevel
             currRisk == current.categories[key].riskLevel
         IN <<[category |-> key, previousRisk |-> prevRisk,
               currentRisk |-> currRisk]>>
            \o CategoryChangesAlways(previous, current, k + 1)

RECURSIVE CategoryChangesFrom(_, _, _)
CategoryChangesFrom(previous, current, k) ==
    IF k > Len(CATEGORY_KEYS) THEN <<>>
    ELSE LET key == CATEGORY_KEYS[k]
             prevRisk == IF previous = NullScorecard THEN NullRisk
                         ELSE previous.categories[key].riskLevel
             currRisk == current.categories[key].riskLevel
         IN (IF prevRisk # currRisk
             THEN <<[category |-> key, previousRisk |-> prevRisk,
                     currentRisk |-> currRisk]>>
             ELSE <<>>)
            \o CategoryChangesFrom(previous, current, k + 1)

\* diffScorecards that reports an unchanged overall level when there is no
\* previous scorecard.
diffScorecardsNullUnchanged(previous, current) ==
    LET previousTitles == IF previous = NullScorecard THEN <<>>
                          ELSE getAllFindingTitles(previous)
        currentTitles == getAllFindingTitles(current)
    IN [overallRiskChanged |->
            IF previous = NullScorecard THEN FALSE
            ELSE previous.overallRiskLevel # current.overallRiskLevel,
        previousRisk |-> IF previous = NullScorecard THEN NullRisk
                         ELSE previous.overallRiskLevel,
        currentRisk |-> current.overallRiskLevel,
        categoryChanges |-> CategoryChangesFrom(previous, current, 1),
        newFindings |-> FilterNotIn(currentTitles, previousTitles, 1),
        removedFindings |-> FilterNotIn(previousTitles, currentTitles, 1)]

diffScorecards(previous, current) ==
    LET previousTitles == IF previous = NullScorecard THEN <<>>
                          ELSE getAllFindingTitles(previous)
        currentTitles == getAllFindingTitles(current)
    IN [overallRiskChanged |->
            IF previous = NullScorecard THEN TRUE
            ELSE previous.overallRiskLevel # current.overallRiskLevel,
        previousRisk |-> IF previous = NullScorecard THEN NullRisk
                         ELSE previous.overallRiskLevel,
        currentRisk |-> current.overallRiskLevel,
        categoryChanges |-> CategoryChangesFrom(previous, current, 1),
        newFindings |-> FilterNotIn(currentTitles, previousTitles, 1),
        removedFindings |-> FilterNotIn(previousTitles, currentTitles, 1)]

(***************************************************************************)
(* Event classification (src/lib/monitor/index.ts).                        *)
(***************************************************************************)
RISK_ORDER ==
    [NONE |-> 0, LOW |-> 1, MEDIUM |-> 2, HIGH |-> 3, CRITICAL |-> 4]

\* Position of the level's name in lexical (string) order.
riskOrdinalLexical(level) ==
    Cardinality({l \in RiskLevel :
        \/ l = "CRITICAL" /\ level # "CRITICAL"
        \/ l = "HIGH" /\ level \in {"LOW", "MEDIUM", "NONE"}
        \/ l = "LOW" /\ level \in {"MEDIUM", "NONE"}
        \/ l = "MEDIUM" /\ level = "NONE"})

riskOrdinal(level) ==
    IF level \in DOMAIN RISK_ORDER THEN RISK_ORDER[level] ELSE -1

hasMaterialChange(diff) ==
    \/ diff.overallRiskChanged
    \/ Len(diff.categoryChanges) > 0
    \/ Len(diff.newFindings) > 0
    \/ Len(diff.removedFindings) > 0

\* The removal test placed before the new-finding test.
eventTypeRemovedFirst(previousScorecard, diff, current) ==
    IF previousScorecard = NullScorecard THEN "initial_scan"
    ELSE IF /\ diff.overallRiskChanged
            /\ riskOrdinal(current.overallRiskLevel)
                 > riskOrdinal(previousScorecard.overallRiskLevel)
         THEN "risk_increased"
    ELSE IF diff.overallRiskChanged THEN "risk_decreased"
    ELSE IF Len(diff.removedFindings) > 0 THEN "finding_removed"
    ELSE "new_finding"

eventTypeOf(previousScorecard, diff, current) ==
    IF previousScorecard = NullScorecard THEN "initial_scan"
    ELSE IF /\ diff.overallRiskChanged
            /\ previousScorecard # NullScorecard
            /\ riskOrdinal(current.overallRiskLevel)
                 > riskOrdinal(previousScorecard.overallRiskLevel)
         THEN "risk_increased"
    ELSE IF diff.overallRiskChanged THEN "risk_decreased"
    ELSE IF Len(diff.newFindings) > 0 THEN "new_finding"
    ELSE "finding_removed"

\* The template strings of buildSummary, as the sequence of their parts.
buildSummary(eventType, diff, previous) ==
    CASE eventType = "initial_scan" ->
            <<"Initial scan completed. Overall risk: ", diff.currentRisk, ".">>
      [] eventType = "risk_increased" ->
            <<"Overall risk escalated from ", previous.overallRiskLevel,
              " to ", diff.currentRisk, ".">>
      [] eventType = "risk_decreased" ->
            <<"Overall risk decreased from ", previous.overallRiskLevel,
              " to ", diff.currentRisk, ".">>
      [] eventType = "new_finding" ->
            <<"New findings detected: ", diff.newFindings, ".">>
      [] eventType = "finding_removed" ->
            <<"Findings removed: ", diff.removedFindings, ".">>
      [] OTHER -> <<"Change detected in vendor scorecard.">>

(***************************************************************************)
(* Selection of the batch: prisma.vendor.findMany on PostgreSQL.           *)
(***************************************************************************)
NewVendor ==
    [latestScorecard |-> NullScorecard, latestScanAt |-> NullTime,
     previousScorecard |-> NullScorecard, previousScanAt |-> NullTime]

Row(table, id) ==
    [id |-> id,
     latestScorecard |-> table[id].latestScorecard,
     latestScanAt |-> table[id].latestScanAt,
     previousScorecard |-> table[id].previousScorecard,
     previousScanAt |-> table[id].previousScanAt]

\* where: { lte: staleThreshold } in place of { lt: staleThreshold }.
IsStaleLte(latestScanAt, staleThreshold) ==
    latestScanAt = NullTime \/ latestScanAt <= staleThreshold

\* where: { OR: [{ latestScanAt: null }, { latestScanAt: { lt: staleThreshold } }] }
IsStale(latestScanAt, staleThreshold) ==
    latestScanAt = NullTime \/ latestScanAt < staleThreshold

StaleRows(table, staleThreshold) ==
    {Row(table, id) : id \in {v \in DOMAIN table :
                                IsStale(table[v].latestScanAt, staleThreshold)}}

\* ORDER BY "latestScanAt" ASC on PostgreSQL: a NULL sorts after every value.
AscOrder(a, b) == b = NullTime \/ (a # NullTime /\ a <= b)

Min(a, b) == IF a <= b THEN a ELSE b

\* take: no limit at all.
TakeAll(count) == count

\* take: BATCH_SIZE
Take(count) == Min(BATCH_SIZE, count)

\* A query without its where clause: every row is a candidate.
findManyAll(table, staleThreshold) ==
    LET stale == {Row(table, id) : id \in DOMAIN table}
        n == Take(Cardinality(stale))
    IN {s \in [1..n -> stale] :
          /\ \A j, k \in 1..n : j < k =>
                /\ s[j] # s[k]
                /\ AscOrder(s[j].latestScanAt, s[k].latestScanAt)
          /\ \A r \in stale \ Range(s) : \A j \in 1..n :
                AscOrder(s[j].latestScanAt, r.latestScanAt)}

\* Every answer the database may give: the first Take rows of some ordering
\* of the stale rows by AscOrder (rows with equal keys come in any order).
findMany(table, staleThreshold) ==
    LET stale == StaleRows(table, staleThreshold)
        n == Take(Cardinality(stale))
    IN {s \in [1..n -> stale] :
          /\ \A j, k \in 1..n : j < k =>
                /\ s[j] # s[k]
                /\ AscOrder(s[j].latestScanAt, s[k].latestScanAt)
          /\ \A r \in stale \ Range(s) : \A j \in 1..n :
                AscOrder(s[j].latestScanAt, r.latestScanAt)}

(***************************************************************************)
(* What the extraction collaborator may return.                            *)
(***************************************************************************)
NoFindings(riskLevel) == CategoryResult(riskLevel, <<>>)

BaseScorecard(overall) ==
    MkScorecard(overall, NoFindings("LOW"), NoFindings("LOW"),
                NoFindings("LOW"), "Low risk.")

validScorecard == BaseScorecard("LOW")

changedScorecard ==
    MkScorecard("HIGH",
                CategoryResult("HIGH", <<Finding("AI Training Detected", "HIGH")>>),
                NoFindings("LOW"), NoFindings("LOW"), "Low risk.")

withFinding ==
    MkScorecard("LOW",
                CategoryResult("LOW", <<Finding("New Risk Found", "HIGH")>>),
                NoFindings("LOW"), NoFindings("LOW"), "Low risk.")

withOtherFinding ==
    MkScorecard("LOW", NoFindings("LOW"),
                CategoryResult("LOW", <<Finding("Old Risk", "HIGH")>>),
                NoFindings("LOW"), "Low risk.")

categoryOnly ==
    MkScorecard("LOW", NoFindings("HIGH"), NoFindings("LOW"),
                NoFindings("LOW"), "Low risk.")

MonitorPool == {validScorecard}

EventPool ==
    {BaseScorecard(l) : l \in RiskLevel}
        \cup {changedScorecard, withFinding, withOtherFinding, categoryOnly}

\* Objects that ScorecardSchema rejects: a missing field, an unknown level.
MalformedObjects ==
    {[overallRiskLevel |-> "LOW"], BaseScorecard("SEVERE")}

(***************************************************************************)
(* runMonitorCycle (src/lib/monitor/index.ts), one action per await.       *)
(***************************************************************************)
EmptyResult == [scanned |-> 0, changed |-> 0, errors |-> <<>>]

vendor(i) == vendors[i][idx[i]]

previousScorecardOf(i) == vendor(i).latestScorecard

diffOf(i) == diffScorecards(previousScorecardOf(i), validated[i])

Call(i, op, ok) ==
    calls' = [calls EXCEPT ![i] =
                Append(@, [op |-> op, vendorId |-> vendor(i).id, ok |-> ok])]

Throw(i, message) ==
    threw' = [threw EXCEPT ![i] =
                Append(@, [vendorId |-> vendor(i).id, message |-> message])]

\* for (const vendor of vendors): the next element, or the return statement.
NextVendor(i) ==
    /\ idx' = [idx EXCEPT ![i] = IF @ < Len(vendors[i]) THEN @ + 1 ELSE @]
    /\ pc' = [pc EXCEPT ![i] = IF idx[i] < Len(vendors[i]) THEN "scrape" ELSE "done"]
    /\ scorecard' = [scorecard EXCEPT ![i] = NullScorecard]
    /\ validated' = [validated EXCEPT ![i] = NullScorecard]

\* A catch block that records the error without counting the vendor.
CatchNoCount(i, message) ==
    /\ result' = [result EXCEPT
            ![i].errors = Append(@, [vendorId |-> vendor(i).id, message |-> message])]
    /\ NextVendor(i)

\* catch (err): lines 117-121.
Catch(i, message) ==
    /\ result' = [result EXCEPT
            ![i].errors = Append(@, [vendorId |-> vendor(i).id, message |-> message]),
            ![i].scanned = @ + 1]
    /\ NextVendor(i)

StartCycleCore(i) ==
    /\ pc[i] = "idle"
    /\ overlap \/ (i = 1 /\ \A j \in Invocations : pc[j] = "idle")
    /\ LET staleThreshold == now - STALE_THRESHOLD_MS
       IN /\ \E found \in findMany(vendorTable, staleThreshold) :
                /\ vendors' = [vendors EXCEPT ![i] = found]
                /\ pc' = [pc EXCEPT ![i] = IF Len(found) = 0 THEN "done" ELSE "scrape"]
          /\ staleSeen' = [staleSeen EXCEPT ![i] = StaleRows(vendorTable, staleThreshold)]
    /\ startedAt' = [startedAt EXCEPT ![i] = now]
    /\ idx' = [idx EXCEPT ![i] = 1]
    /\ result' = [result EXCEPT ![i] = EmptyResult]
    /\ threw' = [threw EXCEPT ![i] = <<>>]
    /\ calls' = [calls EXCEPT ![i] = <<>>]
    /\ UNCHANGED scraperVars
    /\ UNCHANGED diffVars
    /\ UNCHANGED <<vendorTable, auditLog, now, pool, overlap, scorecard,
                   validated, rotatedAt>>

StartCycle(i) ==
    /\ Len(auditLog) < MaxAudit
    /\ StartCycleCore(i)

ScrapeOk(i) ==
    /\ pc[i] = "scrape"
    /\ Call(i, "scrapeVendorDocuments", TRUE)
    /\ pc' = [pc EXCEPT ![i] = "generate"]
    /\ UNCHANGED scraperVars
    /\ UNCHANGED diffVars
    /\ UNCHANGED <<vendorTable, auditLog, now, pool, overlap, vendors, idx,
                   scorecard, validated, result, startedAt, staleSeen, threw,
                   rotatedAt>>

\* A failed discovery that still stamps the vendor as scanned.
ScrapeFailStamped(i) ==
    /\ pc[i] = "scrape"
    /\ Call(i, "scrapeVendorDocuments", FALSE)
    /\ Throw(i, "Scrape failed")
    /\ Catch(i, "Scrape failed")
    /\ vendorTable' = [vendorTable EXCEPT ![vendor(i).id].latestScanAt = now]
    /\ UNCHANGED scraperVars
    /\ UNCHANGED diffVars
    /\ UNCHANGED <<auditLog, now, pool, overlap, vendors, startedAt,
                   staleSeen, rotatedAt>>

\* A failed discovery after which the loop body goes on to the extraction.
ScrapeFailGoesOn(i) ==
    /\ pc[i] = "scrape"
    /\ Call(i, "scrapeVendorDocuments", FALSE)
    /\ pc' = [pc EXCEPT ![i] = "generate"]
    /\ UNCHANGED scraperVars
    /\ UNCHANGED diffVars
    /\ UNCHANGED <<vendorTable, auditLog, now, pool, overlap, vendors, idx,
                   scorecard, validated, result, startedAt, staleSeen, threw,
                   rotatedAt>>

ScrapeFail(i) ==
    /\ pc[i] = "scrape"
    /\ Call(i, "scrapeVendorDocuments", FALSE)
    /\ Throw(i, "Scrape failed")
    /\ Catch(i, "Scrape failed")
    /\ UNCHANGED scraperVars
    /\ UNCHANGED diffVars
    /\ UNCHANGED <<vendorTable, auditLog, now, pool, overlap, vendors,
                   startedAt, staleSeen, rotatedAt>>

GenerateOk(i) ==
    /\ pc[i] = "generate"
    /\ Call(i, "generateObject", TRUE)
    /\ \E object \in pool \cup MalformedObjects :
          scorecard' = [scorecard EXCEPT ![i] = object]
    /\ pc' = [pc EXCEPT ![i] = "validate"]
    /\ UNCHANGED scraperVars
    /\ UNCHANGED diffVars
    /\ UNCHANGED <<vendorTable, auditLog, now, pool, overlap, vendors, idx,
                   validated, result, startedAt, staleSeen, threw, rotatedAt>>

GenerateFail(i) ==
    /\ pc[i] = "generate"
    /\ Call(i, "generateObject", FALSE)
    /\ Throw(i, "Generation failed")
    /\ Catch(i, "Generation failed")
    /\ UNCHANGED scraperVars
    /\ UNCHANGED diffVars
    /\ UNCHANGED <<vendorTable, auditLog, now, pool, overlap, vendors,
                   startedAt, staleSeen, rotatedAt>>

\* Lines 60-73: both parses succeed, the diff decides whether to audit.
ValidateOk(i) ==
    /\ pc[i] = "validate"
    /\ ScorecardSchemaAccepts(scorecard[i])
    /\ previousScorecardOf(i) = NullScorecard
          \/ ScorecardSchemaAccepts(previousScorecardOf(i))
    /\ validated' = [validated EXCEPT ![i] = scorecard[i]]
    /\ pc' = [pc EXCEPT ![i] =
                IF hasMaterialChange(
                      diffScorecards(previousScorecardOf(i), scorecard[i]))
                THEN "audit" ELSE "rotate"]
    /\ UNCHANGED scraperVars
    /\ UNCHANGED diffVars
    /\ UNCHANGED <<vendorTable, auditLog, now, pool, overlap, vendors, idx,
                   scorecard, result, startedAt, staleSeen, threw, calls,
                   rotatedAt>>

\* Lines 60-65: ScorecardSchema.parse throws on either object.
ValidateFail(i) ==
    /\ pc[i] = "validate"
    /\ \/ ~ScorecardSchemaAccepts(scorecard[i])
       \/ /\ previousScorecardOf(i) # NullScorecard
          /\ ~ScorecardSchemaAccepts(previousScorecardOf(i))
    /\ Throw(i, "Invalid scorecard")
    /\ Catch(i, "Invalid scorecard")
    /\ UNCHANGED scraperVars
    /\ UNCHANGED diffVars
    /\ UNCHANGED <<vendorTable, auditLog, now, pool, overlap, vendors,
                   startedAt, staleSeen, calls, rotatedAt>>

\* An entry filed under the first vendor of the batch.
AuditEntryBatchHead(i) ==
    LET diff == diffOf(i)
        eventType == eventTypeOf(previousScorecardOf(i), diff, validated[i])
    IN [vendorId |-> vendors[i][1].id,
        eventType |-> eventType,
        summary |-> buildSummary(eventType, diff, previousScorecardOf(i)),
        diff |-> diff,
        scorecard |-> validated[i]]

AuditEntry(i) ==
    LET diff == diffOf(i)
        eventType == eventTypeOf(previousScorecardOf(i), diff, validated[i])
    IN [vendorId |-> vendor(i).id,
        eventType |-> eventType,
        summary |-> buildSummary(eventType, diff, previousScorecardOf(i)),
        diff |-> diff,
        scorecard |-> validated[i]]

\* Lines 92-102: prisma.auditLog.create resolves, then result.changed++.
AuditCreateOk(i) ==
    /\ pc[i] = "audit"
    /\ Call(i, "auditLog.create", TRUE)
    /\ auditLog' = Append(auditLog, AuditEntry(i))
    /\ result' = [result EXCEPT ![i].changed = @ + 1]
    /\ pc' = [pc EXCEPT ![i] = "rotate"]
    /\ UNCHANGED scraperVars
    /\ UNCHANGED diffVars
    /\ UNCHANGED <<vendorTable, now, pool, overlap, vendors, idx, scorecard,
                   validated, startedAt, staleSeen, threw, rotatedAt>>

AuditCreateFail(i) ==
    /\ pc[i] = "audit"
    /\ Call(i, "auditLog.create", FALSE)
    /\ Throw(i, "Audit write failed")
    /\ Catch(i, "Audit write failed")
    /\ UNCHANGED scraperVars
    /\ UNCHANGED diffVars
    /\ UNCHANGED <<vendorTable, auditLog, now, pool, overlap, vendors,
                   startedAt, staleSeen, rotatedAt>>

\* A rotation that stores the new scorecard in both slots.
RotateDataBoth(stored, row, new, at) ==
    [previousScorecard |-> new,
     previousScanAt |-> row.latestScanAt,
     latestScorecard |-> new,
     latestScanAt |-> at]

\* The data of prisma.vendor.update, lines 108-113, applied to the stored
\* row: `?? undefined` leaves previousScorecard as stored.
RotateData(stored, row, new, at) ==
    [previousScorecard |-> IF row.latestScorecard = NullScorecard
                           THEN stored.previousScorecard
                           ELSE row.latestScorecard,
     previousScanAt |-> row.latestScanAt,
     latestScorecard |-> new,
     latestScanAt |-> at]

RotateOk(i) ==
    /\ pc[i] = "rotate"
    /\ Call(i, "vendor.update", TRUE)
    /\ vendorTable' = [vendorTable EXCEPT ![vendor(i).id] =
                          RotateData(@, vendor(i), validated[i], now)]
    /\ rotatedAt' = [rotatedAt EXCEPT ![vendor(i).id] = now]
    /\ result' = [result EXCEPT ![i].scanned = @ + 1]
    /\ NextVendor(i)
    /\ UNCHANGED scraperVars
    /\ UNCHANGED diffVars
    /\ UNCHANGED <<auditLog, now, pool, overlap, vendors, startedAt,
                   staleSeen, threw>>

RotateFail(i) ==
    /\ pc[i] = "rotate"
    /\ Call(i, "vendor.update", FALSE)
    /\ Throw(i, "Update failed")
    /\ Catch(i, "Update failed")
    /\ UNCHANGED scraperVars
    /\ UNCHANGED diffVars
    /\ UNCHANGED <<vendorTable, auditLog, now, pool, overlap, vendors,
                   startedAt, staleSeen, rotatedAt>>

\* return result: the caller has the summary, the invocation's locals go.
Return(i) ==
    /\ pc[i] = "done"
    /\ pc' = [pc EXCEPT ![i] = "idle"]
    /\ vendors' = [vendors EXCEPT ![i] = <<>>]
    /\ idx' = [idx EXCEPT ![i] = 1]
    /\ result' = [result EXCEPT ![i] = EmptyResult]
    /\ startedAt' = [startedAt EXCEPT ![i] = NullTime]
    /\ staleSeen' = [staleSeen EXCEPT ![i] = {}]
    /\ threw' = [threw EXCEPT ![i] = <<>>]
    /\ calls' = [calls EXCEPT ![i] = <<>>]
    /\ UNCHANGED scraperVars
    /\ UNCHANGED diffVars
    /\ UNCHANGED <<vendorTable, auditLog, now, pool, overlap, scorecard,
                   validated, rotatedAt>>

\* The host process is terminated while invocation i is in its loop: its
\* locals are lost, what was written to the database stays.
Terminate(i) ==
    /\ pc[i] \in {"scrape", "generate", "validate", "audit", "rotate"}
    /\ pc' = [pc EXCEPT ![i] = "idle"]
    /\ vendors' = [vendors EXCEPT ![i] = <<>>]
    /\ idx' = [idx EXCEPT ![i] = 1]
    /\ scorecard' = [scorecard EXCEPT ![i] = NullScorecard]
    /\ validated' = [validated EXCEPT ![i] = NullScorecard]
    /\ result' = [result EXCEPT ![i] = EmptyResult]
    /\ startedAt' = [startedAt EXCEPT ![i] = NullTime]
    /\ staleSeen' = [staleSeen EXCEPT ![i] = {}]
    /\ threw' = [threw EXCEPT ![i] = <<>>]
    /\ calls' = [calls EXCEPT ![i] = <<>>]
    /\ UNCHANGED scraperVars
    /\ UNCHANGED diffVars
    /\ UNCHANGED <<vendorTable, auditLog, now, pool, overlap, rotatedAt>>

\* Time passes between invocations (an invocation lasts at most 300 s).
Tick ==
    /\ \A i \in Invocations : pc[i] = "idle"
    /\ now < MaxTicks * TickMs
    /\ now' = now + TickMs
    /\ UNCHANGED scraperVars
    /\ UNCHANGED diffVars
    /\ UNCHANGED <<vendorTable, auditLog, pool, overlap, pc, vendors, idx,
                   scorecard, validated, result, startedAt, staleSeen, threw,
                   calls, rotatedAt>>

InitLocals ==
    /\ pc = [i \in Invocations |-> "idle"]
    /\ vendors = [i \in Invocations |-> <<>>]
    /\ idx = [i \in Invocations |-> 1]
    /\ scorecard = [i \in Invocations |-> NullScorecard]
    /\ validated = [i \in Invocations |-> NullScorecard]
    /\ result = [i \in Invocations |-> EmptyResult]
    /\ startedAt = [i \in Invocations |-> NullTime]
    /\ staleSeen = [i \in Invocations |-> {}]
    /\ threw = [i \in Invocations |-> <<>>]
    /\ calls = [i \in Invocations |-> <<>>]

\* diffScorecards has not been called.
InitDiff ==
    /\ diffPrevious = NullScorecard
    /\ diffCurrent = NullScorecard
    /\ diffReturned = [kind |-> "none"]

\* No scrapeVendorDocuments call is being followed.
InitScraper ==
    /\ inputUrl = <<>>
    /\ rootUrl = <<>>
    /\ hostname = <<>>
    /\ links = <<>>
    /\ matched = <<>>
    /\ discoveredPages = <<>>
    /\ legalPages = <<>>
    /\ page = 1
    /\ documents = <<>>
    /\ errors = <<>>
    /\ outcome = [kind |-> "none"]
    /\ spc = "idle"
    /\ clientCalls = <<>>

InitStore(ids) ==
    /\ vendorTable = [v \in ids |-> NewVendor]
    /\ rotatedAt = [v \in ids |-> NullTime]
    /\ auditLog = <<>>
    /\ now = 0

\* Three tracked vendors, none scanned yet, invocations never overlapping.
Init ==
    /\ InitStore({"A", "B", "C"})
    /\ pool = MonitorPool
    /\ overlap = FALSE
    /\ InitLocals
    /\ InitDiff
    /\ InitScraper

\* One tracked vendor whose documents may yield any scorecard of EventPool.
InitEvents ==
    /\ InitStore({"A"})
    /\ pool = EventPool
    /\ overlap = FALSE
    /\ InitLocals
    /\ InitDiff
    /\ InitScraper

Step(i) ==
    \/ ScrapeOk(i) \/ ScrapeFail(i)
    \/ GenerateOk(i) \/ GenerateFail(i)
    \/ ValidateOk(i) \/ ValidateFail(i)
    \/ AuditCreateOk(i) \/ AuditCreateFail(i)
    \/ RotateOk(i) \/ RotateFail(i)
    \/ Return(i)

Next ==
    \/ \E i \in Invocations : StartCycle(i)
    \/ \E i \in Invocations : Step(i)
    \/ Tick

Spec == Init /\ [][Next]_vars

SpecEvents == InitEvents /\ [][Next]_vars

(***************************************************************************)
(* Fair scheduling: the cron trigger keeps invoking the cycle and every    *)
(* awaited call settles; the persistence layer does not fail here.         *)
(***************************************************************************)
LiveStep(i) ==
    \/ ScrapeOk(i) \/ ScrapeFail(i)
    \/ GenerateOk(i) \/ GenerateFail(i)
    \/ ValidateOk(i) \/ ValidateFail(i)
    \/ AuditCreateOk(i)
    \/ RotateOk(i)
    \/ Return(i)

LiveNext ==
    \/ \E i \in Invocations : StartCycleCore(i)
    \/ \E i \in Invocations : LiveStep(i)
    \/ Tick

LiveSpec ==
    /\ Init
    /\ [][LiveNext]_vars
    /\ WF_vars(\E i \in Invocations : StartCycleCore(i))
    /\ WF_vars(\E i \in Invocations : LiveStep(i))

(***************************************************************************)
(* Termination of the host process in the middle of a cycle, followed by   *)
(* later invocations; the persistence layer does not fail here.            *)
(***************************************************************************)
CrashNext ==
    \/ \E i \in Invocations : StartCycle(i)
    \/ \E i \in Invocations : LiveStep(i)
    \/ \E i \in Invocations : Terminate(i)
    \/ Tick

SpecCrash == Init /\ [][CrashNext]_vars

(***************************************************************************)
(* Strings of the scraper (src/lib/scraper, src/lib/utils/url.ts): a       *)
(* string is the sequence of its characters, so that its length, its       *)
(* prefixes and the matches of a regular expression are computed.          *)
(***************************************************************************)
LowerLetters ==
    <<"a", "b", "c", "d", "e", "f", "g", "h", "i", "j", "k", "l", "m",
      "n", "o", "p", "q", "r", "s", "t", "u", "v", "w", "x", "y", "z">>

UpperLetters ==
    <<"A", "B", "C", "D", "E", "F", "G", "H", "I", "J", "K", "L", "M",
      "N", "O", "P", "Q", "R", "S", "T", "U", "V", "W", "X", "Y", "Z">>

\* String.prototype.toLowerCase, on one character and on a string.
toLowerChar(c) ==
    IF c \in Range(UpperLetters)
    THEN LowerLetters[CHOOSE n \in 1..26 : UpperLetters[n] = c]
    ELSE c

toLowerCase(s) == [k \in 1..Len(s) |-> toLowerChar(s[k])]

\* The string w occurs in s at position p.
OccursAt(s, p, w) ==
    /\ p + Len(w) - 1 <= Len(s)
    /\ \A k \in 1..Len(w) : s[p + k - 1] = w[k]

\* String.prototype.startsWith and String.prototype.includes.
startsWith(s, w) == OccursAt(s, 1, w)

includes(s, w) == \E p \in 1..Len(s) : OccursAt(s, p, w)

\* The first position of s at or after `from` whose character is in `set`,
\* or Len(s) + 1.
IndexOfAny(s, set, from) ==
    IF \E p \in from..Len(s) : s[p] \in set
    THEN CHOOSE p \in from..Len(s) :
            /\ s[p] \in set
            /\ \A q \in from..(p - 1) : s[q] \notin set
    ELSE Len(s) + 1
SchemeSeparator == <<":", "/", "/">>

\* new URL(url).pathname, for a URL with a scheme and a host: from the first
\* slash after the host up to the query or the fragment; "/" if there is none.
pathname(url) ==
    LET sep == CHOOSE p \in 1..Len(url) :
                   /\ OccursAt(url, p, SchemeSeparator)
                   /\ \A q \in 1..(p - 1) : ~OccursAt(url, q, SchemeSeparator)
        first == IndexOfAny(url, {"/", "?", "#"}, sep + 3)
        last == IndexOfAny(url, {"?", "#"}, sep + 3) - 1
    IN IF first > Len(url) \/ url[first] # "/" THEN <<"/">>
       ELSE SubSeq(url, first, last)

(***************************************************************************)
(* Classification of a URL (src/lib/scraper/index.ts).                     *)
(***************************************************************************)
NullType == "null"

DocumentType == {"tos", "privacy", "dpa", "subprocessor", "other"}

\* Each pattern is "/" followed by one of the listed alternatives, tested
\* anywhere in the string and without regard to case.
LEGAL_PATH_PATTERNS ==
    <<[type |-> "tos",
       pattern |->
         <<<<"t", "e", "r", "m", "s">>,
           <<"t", "o", "s">>,
           <<"t", "e", "r", "m", "s", "-", "o", "f", "-", "s", "e", "r", "v", "i", "c", "e">>,
           <<"t", "e", "r", "m", "s", "-", "o", "f", "-", "u", "s", "e">>,
           <<"t", "e", "r", "m", "s", "o", "f", "s", "e", "r", "v", "i", "c", "e">>,
           <<"t", "e", "r", "m", "s", "o", "f", "u", "s", "e">>>>],
      [type |-> "privacy",
       pattern |->
         <<<<"p", "r", "i", "v", "a", "c", "y">>,
           <<"p", "r", "i", "v", "a", "c", "y", "-", "p", "o", "l", "i", "c", "y">>,
           <<"p", "r", "i", "v", "a", "c", "y", "p", "o", "l", "i", "c", "y">>,
           <<"d", "a", "t", "a", "-", "p", "r", "i", "v", "a", "c", "y">>>>],
      [type |-> "dpa",
       pattern |->
         <<<<"d", "p", "a">>,
           <<"d", "a", "t", "a", "-", "p", "r", "o", "c", "e", "s", "s", "i", "n", "g">>,
           <<"d", "a", "t", "a", "p", "r", "o", "c", "e", "s", "s", "i", "n", "g">>,
           <<"d", "a", "t", "a", "-", "p", "r", "o", "t", "e", "c", "t", "i", "o", "n">>>>],
      [type |-> "subprocessor",
       pattern |->
         <<<<"s", "u", "b", "p", "r", "o", "c", "e", "s", "s", "o", "r">>,
           <<"s", "u", "b", "-", "p", "r", "o", "c", "e", "s", "s", "o", "r">>,
           <<"s", "u", "b", "p", "r", "o", "c", "e", "s", "s", "o", "r", "s">>,
           <<"s", "u", "b", "-", "p", "r", "o", "c", "e", "s", "s", "o", "r", "s">>>>]>>

\* RegExp.prototype.test of /\/(a|b|...)/i.
PatternTest(pattern, url) ==
    \E a \in 1..Len(pattern) :
        includes(toLowerCase(url), <<"/">> \o toLowerCase(pattern[a]))

classifyUrl(url) ==
    IF \E k \in 1..Len(LEGAL_PATH_PATTERNS) :
          PatternTest(LEGAL_PATH_PATTERNS[k].pattern, url)
    THEN LEGAL_PATH_PATTERNS[
            CHOOSE k \in 1..Len(LEGAL_PATH_PATTERNS) :
                /\ PatternTest(LEGAL_PATH_PATTERNS[k].pattern, url)
                /\ \A j \in 1..(k - 1) :
                      ~PatternTest(LEGAL_PATH_PATTERNS[j].pattern, url)].type
    ELSE NullType

(***************************************************************************)
(* Deduplication by document type (src/lib/scraper/index.ts).              *)
(***************************************************************************)
\* /\/[a-z]{2}(-[A-Z]{2})?\// matching at position p of s.
LOCALE_SEGMENT(s, p) ==
    /\ p + 3 <= Len(s)
    /\ s[p] = "/"
    /\ s[p + 1] \in Range(LowerLetters)
    /\ s[p + 2] \in Range(LowerLetters)
    /\ \/ s[p + 3] = "/"
       \/ /\ p + 6 <= Len(s)
          /\ s[p + 3] = "-"
          /\ s[p + 4] \in Range(UpperLetters)
          /\ s[p + 5] \in Range(UpperLetters)
          /\ s[p + 6] = "/"

isLocalizedUrl(url) ==
    LET path == pathname(url)
    IN \E p \in 1..Len(path) : LOCALE_SEGMENT(path, p)

\* Map.prototype.get, on a map kept as the sequence of its values in
\* insertion order: the position of the key's value, 0 if the key is absent.
byTypeGet(byType, type) ==
    IF \E k \in 1..Len(byType) : byType[k].type = type
    THEN CHOOSE k \in 1..Len(byType) : byType[k].type = type
    ELSE 0

\* Only a non-localized URL replaces a localized one; length is not looked at.
ReplacesIfNonLocalized(existing, entry) ==
    isLocalizedUrl(existing.url) /\ ~isLocalizedUrl(entry.url)

\* The shorter URL replaces the stored one, whatever their locale status.
ReplacesIfShorter(existing, entry) ==
    Len(entry.url) < Len(existing.url)

\* Lines 194-203: whether `entry` replaces the stored `existing`.
Replaces(existing, entry) ==
    LET existingLocalized == isLocalizedUrl(existing.url)
        entryLocalized == isLocalizedUrl(entry.url)
    IN IF existingLocalized /\ ~entryLocalized THEN TRUE
       ELSE /\ existingLocalized = entryLocalized
            /\ Len(entry.url) < Len(existing.url)

RECURSIVE DeduplicateFrom(_, _, _)
DeduplicateFrom(byType, urls, k) ==
    IF k > Len(urls) THEN byType
    ELSE LET entry == urls[k]
             at == byTypeGet(byType, entry.type)
         IN DeduplicateFrom(
                IF at = 0 THEN Append(byType, entry)
                ELSE IF Replaces(byType[at], entry)
                     THEN [byType EXCEPT ![at] = entry]
                     ELSE byType,
                urls, k + 1)

\* No deduplication: every candidate is kept.
deduplicateKeepAll(urls) == urls

deduplicateByType(urls) == DeduplicateFrom(<<>>, urls, 1)

(***************************************************************************)
(* Fallback paths (src/lib/scraper/index.ts).                              *)
(***************************************************************************)
FALLBACK_PATHS ==
    <<[type |-> "tos",
       path |-> <<"/", "p", "o", "l", "i", "c", "i", "e", "s", "/", "t",
                   "e", "r", "m", "s", "-", "o", "f", "-", "u", "s", "e">>],
      [type |-> "tos",
       path |-> <<"/", "t", "e", "r", "m", "s", "-", "o", "f", "-", "u",
                   "s", "e">>],
      [type |-> "tos",
       path |-> <<"/", "t", "e", "r", "m", "s", "-", "o", "f", "-", "s",
                   "e", "r", "v", "i", "c", "e">>],
      [type |-> "tos",
       path |-> <<"/", "t", "e", "r", "m", "s">>],
      [type |-> "privacy",
       path |-> <<"/", "p", "o", "l", "i", "c", "i", "e", "s", "/", "p",
                   "r", "i", "v", "a", "c", "y", "-", "p", "o", "l", "i",
                   "c", "y">>],
      [type |-> "privacy",
       path |-> <<"/", "p", "r", "i", "v", "a", "c", "y", "-", "p", "o",
                   "l", "i", "c", "y">>],
      [type |-> "privacy",
       path |-> <<"/", "p", "r", "i", "v", "a", "c", "y">>],
      [type |-> "dpa",
       path |-> <<"/", "p", "o", "l", "i", "c", "i", "e", "s", "/", "d",
                   "a", "t", "a", "-", "p", "r", "o", "c", "e", "s", "s",
                   "i", "n", "g", "-", "a", "d", "d", "e", "n", "d", "u",
                   "m">>],
      [type |-> "dpa",
       path |-> <<"/", "d", "p", "a">>],
      [type |-> "subprocessor",
       path |-> <<"/", "s", "u", "b", "p", "r", "o", "c", "e", "s", "s",
                   "o", "r", "s">>],
      [type |-> "subprocessor",
       path |-> <<"/", "s", "u", "b", "-", "p", "r", "o", "c", "e", "s",
                   "s", "o", "r", "s">>]>>

\* A loop that pushes every fallback path, without the seenFallbackTypes test.
RECURSIVE FallbacksAllFrom(_, _, _, _)
FallbacksAllFrom(fallbacks, seenFallbackTypes, root, k) ==
    IF k > Len(FALLBACK_PATHS) THEN fallbacks
    ELSE FallbacksAllFrom(
            Append(fallbacks, [url |-> root \o FALLBACK_PATHS[k].path,
                               type |-> FALLBACK_PATHS[k].type]),
            seenFallbackTypes, root, k + 1)

\* Lines 289-293: one fallback per type, the first path listed for it.
RECURSIVE FallbacksFrom(_, _, _, _)
FallbacksFrom(fallbacks, seenFallbackTypes, root, k) ==
    IF k > Len(FALLBACK_PATHS) THEN fallbacks
    ELSE IF FALLBACK_PATHS[k].type \in seenFallbackTypes
         THEN FallbacksFrom(fallbacks, seenFallbackTypes, root, k + 1)
         ELSE FallbacksFrom(
                Append(fallbacks, [url |-> root \o FALLBACK_PATHS[k].path,
                                   type |-> FALLBACK_PATHS[k].type]),
                seenFallbackTypes \cup {FALLBACK_PATHS[k].type}, root, k + 1)

\* The fallbacks are put in front of the discovered pages.
mergeFallbacksFirst(root, discovered) ==
    deduplicateByType(FallbacksFrom(<<>>, {}, root, 1) \o discovered)

mergeWithFallbacks(root, discovered) ==
    deduplicateByType(discovered \o FallbacksFrom(<<>>, {}, root, 1))

(***************************************************************************)
(* Candidate links: pages of one site, some under a locale segment.        *)
(***************************************************************************)
MaxLinks == 3

Origin == <<"h", "t", "t", "p", "s", ":", "/", "/", "a", ".", "i", "o">>

path_terms == <<"/", "t", "e", "r", "m", "s">>
path_tos_x == <<"/", "t", "o", "s", "-", "x">>
path_terms_of_use ==
    <<"/", "t", "e", "r", "m", "s", "-", "o", "f", "-", "u", "s", "e">>
path_tos == <<"/", "t", "o", "s">>
path_privacy == <<"/", "p", "r", "i", "v", "a", "c", "y">>
locale_de == <<"d", "e">>
locale_fi_FI == <<"f", "i", "-", "F", "I">>
locale_de_DE == <<"d", "e", "-", "D", "E">>

Plain(path) == Origin \o path

Localized(locale, path) == Origin \o <<"/">> \o locale \o path

PlainLinks ==
    {Plain(path_terms), Plain(path_tos_x), Plain(path_terms_of_use),
     Plain(path_privacy)}

LocalizedLinks ==
    {Localized(locale_de, path_tos), Localized(locale_fi_FI, path_tos),
     Localized(locale_de_DE, path_privacy)}

LinkPool == PlainLinks \cup LocalizedLinks

SeqsUpTo(S, n) == UNION {[1..m -> S] : m \in 0..n}

\* Lines 230-235: a link with the type classifyUrl gives it.
Entry(url) == [url |-> url, type |-> classifyUrl(url)]

(***************************************************************************)
(* deduplicateByType and mergeWithFallbacks applied to every list of       *)
(* classified links of at most MaxLinks elements, in every order.          *)
(***************************************************************************)
InitDedup ==
    /\ InitStore({"A"})
    /\ pool = MonitorPool
    /\ overlap = FALSE
    /\ InitLocals
    /\ InitDiff
    /\ inputUrl = Origin
    /\ rootUrl = Origin
    /\ hostname = <<>>
    /\ links = <<>>
    /\ matched \in SeqsUpTo({Entry(u) : u \in LinkPool}, MaxLinks)
    /\ discoveredPages = <<>>
    /\ legalPages = <<>>
    /\ page = 1
    /\ documents = <<>>
    /\ errors = <<>>
    /\ outcome = [kind |-> "none"]
    /\ spc = "matched"
    /\ clientCalls = <<>>

\* Line 237: return deduplicateByType(matched).
Deduplicate ==
    /\ spc = "matched"
    /\ discoveredPages' = deduplicateByType(matched)
    /\ spc' = "discovered"
    /\ UNCHANGED monitorVars
    /\ UNCHANGED diffVars
    /\ UNCHANGED <<inputUrl, rootUrl, hostname, links, matched, legalPages,
                   page, documents, errors, outcome, clientCalls>>

\* Line 317: const legalPages = mergeWithFallbacks(rootUrl, discoveredPages).
Merge ==
    /\ spc = "discovered"
    /\ legalPages' = mergeWithFallbacks(rootUrl, discoveredPages)
    /\ spc' = "merged"
    /\ UNCHANGED monitorVars
    /\ UNCHANGED diffVars
    /\ UNCHANGED <<inputUrl, rootUrl, hostname, links, matched,
                   discoveredPages, page, documents, errors, outcome,
                   clientCalls>>

DedupNext == Deduplicate \/ Merge

SpecDedup == InitDedup /\ [][DedupNext]_vars

(***************************************************************************)
(* Validation of the input URL (src/lib/utils/url.ts).                     *)
(***************************************************************************)
Digits == <<"0", "1", "2", "3", "4", "5", "6", "7", "8", "9">>

Whitespace == {" ", "\t", "\n", "\r"}

\* String.prototype.trim.
trim(s) ==
    IF \A k \in 1..Len(s) : s[k] \in Whitespace THEN <<>>
    ELSE LET first == CHOOSE p \in 1..Len(s) :
                          /\ s[p] \notin Whitespace
                          /\ \A q \in 1..(p - 1) : s[q] \in Whitespace
             last == CHOOSE p \in 1..Len(s) :
                         /\ s[p] \notin Whitespace
                         /\ \A q \in (p + 1)..Len(s) : s[q] \in Whitespace
         IN SubSeq(s, first, last)

scheme_http == <<"h", "t", "t", "p", ":", "/", "/">>
scheme_https == <<"h", "t", "t", "p", "s", ":", "/", "/">>
host_localhost == <<"l", "o", "c", "a", "l", "h", "o", "s", "t">>
host_zero == <<"0", ".", "0", ".", "0", ".", "0">>
suffix_local == <<".", "l", "o", "c", "a", "l">>
suffix_internal == <<".", "i", "n", "t", "e", "r", "n", "a", "l">>
host_loopback6 == <<":", ":", "1">>
host_loopback6_bracketed == <<"[", ":", ":", "1", "]">>

\* Lines 6-12: a bare domain gets https:// prepended.
withScheme(val) ==
    IF ~startsWith(val, scheme_http) /\ ~startsWith(val, scheme_https)
    THEN scheme_https \o val
    ELSE val

String_endsWith(s, w) ==
    /\ Len(w) <= Len(s)
    /\ OccursAt(s, Len(s) - Len(w) + 1, w)

\* Op(x) with x computed once, before Op is applied to its value.
Strict(Op(_), x) == CHOOSE r \in {Op(v) : v \in {x}} : TRUE

\* new URL(val).host: what stands between "://" and the path, the query or
\* the fragment, without the credentials that end at the last "@".
hostOf(val) ==
    LET from == IF startsWith(val, scheme_https) THEN Len(scheme_https) + 1
                ELSE Len(scheme_http) + 1
        end == IndexOfAny(val, {"/", "?", "#"}, from) - 1
        ats == {p \in from..end : val[p] = "@"}
        start == IF ats = {} THEN from
                 ELSE 1 + CHOOSE p \in ats : \A q \in ats : q <= p
    IN SubSeq(val, start, end)

\* The host without its port, in lower case, as the URL parser receives it.
rawHostname(val) ==
    LET host == hostOf(val)
        colon == IF Len(host) > 0 /\ host[1] = "["
                 THEN IndexOfAny(host, {":"}, IndexOfAny(host, {"]"}, 1))
                 ELSE IndexOfAny(host, {":"}, 1)
    IN toLowerCase(SubSeq(host, 1, colon - 1))

\* new URL(val).port as written: what follows the colon after the host.
portOf(val) ==
    LET host == hostOf(val)
        colon == IF Len(host) > 0 /\ host[1] = "["
                 THEN IndexOfAny(host, {":"}, IndexOfAny(host, {"]"}, 1))
                 ELSE IndexOfAny(host, {":"}, 1)
    IN SubSeq(host, colon + 1, Len(host))

HexDigits ==
    <<"0", "1", "2", "3", "4", "5", "6", "7", "8", "9",
      "a", "b", "c", "d", "e", "f">>

RECURSIVE valueUpTo(_, _, _)
\* The number that the first k digits of s write in radix R.
valueUpTo(s, R, k) ==
    IF k = 0 THEN 0
    ELSE R * valueUpTo(s, R, k - 1)
            + (CHOOSE n \in 1..16 : HexDigits[n] = s[k]) - 1

valueIn(s, R) == valueUpTo(s, R, Len(s))

\* The URL parser's IPv4 number parser: decimal, octal after a leading 0,
\* hexadecimal after 0x; -1 for failure.  Numbers stay below 2^31.
ipv4Number(part) ==
    LET hex == Len(part) >= 2 /\ part[1] = "0" /\ part[2] = "x"
        oct == ~hex /\ Len(part) >= 2 /\ part[1] = "0"
        R == IF hex THEN 16 ELSE IF oct THEN 8 ELSE 10
        body == IF hex THEN SubSeq(part, 3, Len(part))
                ELSE IF oct THEN SubSeq(part, 2, Len(part))
                ELSE part
    IN IF Len(part) = 0 THEN -1
       ELSE IF \E k \in 1..Len(body) : body[k] \notin {HexDigits[n] : n \in 1..R}
       THEN -1
       ELSE valueIn(body, R)

\* The position of the i-th dot of s; 0 before the first, Len(s) + 1 after
\* the last.
dotAt(s, i) ==
    LET dots == {p \in 1..Len(s) : s[p] = "."}
    IN IF i = 0 THEN 0
       ELSE IF i > Cardinality(dots) THEN Len(s) + 1
       ELSE CHOOSE p \in dots : Cardinality({q \in dots : q <= p}) = i

\* String.prototype.split("."): the parts of s between its dots.
splitDots(s) ==
    [i \in 1..(Cardinality({p \in 1..Len(s) : s[p] = "."}) + 1) |->
        SubSeq(s, dotAt(s, i - 1) + 1, dotAt(s, i) - 1)]

\* The parts of a host, an empty last part (a trailing dot) dropped.
hostParts(h) == Strict(LAMBDA parts :
                          IF Len(parts) > 1 /\ parts[Len(parts)] = <<>>
                          THEN SubSeq(parts, 1, Len(parts) - 1)
                          ELSE parts,
                      splitDots(h))

\* The URL parser's "ends in a number" test: such a host is an IPv4
\* address or the URL is invalid.
endsInNumber(h) ==
    \E parts \in {hostParts(h)} :
        \E last \in {parts[Len(parts)]} :
            /\ Len(last) > 0
            /\ \/ \A k \in 1..Len(last) : last[k] \in {HexDigits[n] : n \in 1..10}
               \/ ipv4Number(last) # -1

RECURSIVE power(_, _)
power(b, e) == IF e = 0 THEN 1 ELSE b * power(b, e - 1)

\* The URL parser's IPv4 parser: the four bytes of the address, or <<>> for
\* failure.  The leading parts are one byte each, the last part fills the
\* bytes that remain.
ipv4FromNumbers(numbers) ==
    LET n == Len(numbers)
        fill == 5 - n
    IN IF n > 4 THEN <<>>
       ELSE IF \E k \in 1..n : numbers[k] = -1 THEN <<>>
       ELSE IF \E k \in 1..(n - 1) : numbers[k] > 255 THEN <<>>
       ELSE IF fill < 4 /\ numbers[n] >= power(256, fill) THEN <<>>
       ELSE [k \in 1..4 |->
                IF k < n THEN numbers[k]
                ELSE (numbers[n] \div power(256, 4 - k)) % 256]

ipv4Parse(h) ==
    Strict(ipv4FromNumbers,
           Strict(LAMBDA parts : [k \in 1..Len(parts) |-> ipv4Number(parts[k])],
                  hostParts(h)))

RECURSIVE decimalOf(_)
\* Number.prototype.toString of a natural number.
decimalOf(n) ==
    IF n < 10 THEN <<HexDigits[n + 1]>>
    ELSE decimalOf(n \div 10) \o <<HexDigits[(n % 10) + 1]>>

\* The dotted-decimal text of four bytes.
dotted(q) ==
    decimalOf(q[1]) \o <<".">> \o decimalOf(q[2]) \o <<".">>
        \o decimalOf(q[3]) \o <<".">> \o decimalOf(q[4])

\* new URL(val).hostname: the host without its port, in lower case; a host
\* that ends in a number is read as an IPv4 address and written back in
\* dotted decimal.  The rewriting of an IPv6 address is left out: a
\* bracketed host stays as written.
serializedHost(h) ==
    IF Len(h) > 0 /\ h[1] # "[" /\ endsInNumber(h) /\ ipv4Parse(h) # <<>>
    THEN Strict(dotted, ipv4Parse(h))
    ELSE h

hostnameOf(val) == Strict(serializedHost, rawHostname(val))

\* new URL(val).origin for an https URL: the default port is left out.
originOf(val) ==
    scheme_https \o hostnameOf(val)
        \o (IF portOf(val) \in {<<>>, <<"4", "4", "3">>} THEN <<>>
            ELSE <<":">> \o portOf(val))

\* z.string().url(): new URL(val) accepts the string; here, a host is there
\* and holds no character a host cannot hold, a host that ends in a number
\* is an IPv4 address, and a port is made of digits.
isUrl(val) ==
    /\ \E h \in {rawHostname(val)} :
          /\ Len(h) > 0
          /\ \A k \in 1..Len(h) :
                h[k] \in Range(LowerLetters) \cup Range(Digits)
                           \cup {".", "-", ":", "[", "]"}
          /\ (h[1] # "[" /\ endsInNumber(h)) => ipv4Parse(h) # <<>>
    /\ \E port \in {portOf(val)} :
          \A k \in 1..Len(port) : port[k] \in Range(Digits)

digitValue(c) == (CHOOSE n \in 1..10 : Digits[n] = c) - 1

RECURSIVE numberOf(_)
numberOf(s) ==
    IF Len(s) = 0 THEN 0
    ELSE 10 * numberOf(SubSeq(s, 1, Len(s) - 1)) + digitValue(s[Len(s)])

\* /^(\d{1,3})\.(\d{1,3})\.(\d{1,3})\.(\d{1,3})$/
ipv4Match(h) ==
    LET parts == splitDots(h)
    IN /\ Len(parts) = 4
       /\ \A k \in 1..4 :
             /\ Len(parts[k]) \in 1..3
             /\ \A j \in 1..Len(parts[k]) : parts[k][j] \in Range(Digits)

\* isPrivateHostname with the 172.16.0.0/12 range cut one short.
isPrivateHostnameNarrow(h) ==
    IF \/ h = host_localhost
       \/ h = host_zero
       \/ String_endsWith(h, suffix_local)
       \/ String_endsWith(h, suffix_internal)
    THEN TRUE
    ELSE IF /\ ipv4Match(h)
            /\ LET a == numberOf(splitDots(h)[1])
                   b == numberOf(splitDots(h)[2])
               IN \/ a = 10
                  \/ a = 172 /\ b >= 16 /\ b < 31
                  \/ a = 192 /\ b = 168
                  \/ a = 127
                  \/ a = 0
                  \/ a = 169 /\ b = 254
         THEN TRUE
    ELSE h = host_loopback6_bracketed \/ h = host_loopback6

isPrivateHostname(h) ==
    IF \/ h = host_localhost
       \/ h = host_zero
       \/ String_endsWith(h, suffix_local)
       \/ String_endsWith(h, suffix_internal)
    THEN TRUE
    ELSE IF /\ ipv4Match(h)
            /\ LET a == numberOf(splitDots(h)[1])
                   b == numberOf(splitDots(h)[2])
               IN \/ a = 10
                  \/ a = 172 /\ b >= 16 /\ b <= 31
                  \/ a = 192 /\ b = 168
                  \/ a = 127
                  \/ a = 0
                  \/ a = 169 /\ b = 254
         THEN TRUE
    ELSE h = host_loopback6_bracketed \/ h = host_loopback6

\* HTTPS_URL_SCHEMA.safeParse(input) and lines 91-101: the origin and the
\* hostname, or the message of the first issue.
safeParse(val) ==
    IF ~isUrl(val)
    THEN [ok |-> FALSE, message |-> "Input must be a valid URL"]
    ELSE IF ~startsWith(val, scheme_https)
    THEN [ok |-> FALSE, message |-> "Only HTTPS URLs are allowed"]
    ELSE IF Strict(isPrivateHostname, hostnameOf(val))
    THEN [ok |-> FALSE, message |-> "Private or internal URLs are not allowed"]
    ELSE [ok |-> TRUE,
          url |-> originOf(val),
          hostname |-> hostnameOf(val)]

sanitizeUrl(input) == Strict(safeParse, withScheme(trim(input)))

(***************************************************************************)
(* scrapeVendorDocuments (src/lib/scraper/index.ts), one action per await. *)
(***************************************************************************)
Thrown(name, message) == [kind |-> "thrown", name |-> name, message |-> message]

Returned(value) == [kind |-> "returned", value |-> value]

\* String.prototype.toUpperCase.
toUpperChar(c) ==
    IF c \in Range(LowerLetters)
    THEN UpperLetters[CHOOSE n \in 1..26 : LowerLetters[n] = c]
    ELSE c

toUpperCase(s) == [k \in 1..Len(s) |-> toUpperChar(s[k])]

\* The characters of a document type's name.
TypeChars ==
    [tos |-> <<"t", "o", "s">>,
     privacy |-> <<"p", "r", "i", "v", "a", "c", "y">>,
     dpa |-> <<"d", "p", "a">>,
     subprocessor |->
        <<"s", "u", "b", "p", "r", "o", "c", "e", "s", "s", "o", "r">>,
     other |-> <<"o", "t", "h", "e", "r">>]

text_begin == <<"\n", "-", "-", "-", " ", "B", "E", "G", "I", "N", " ">>
text_source == <<" ", "(", "s", "o", "u", "r", "c", "e", ":", " ">>
text_source_end == <<")", " ", "-", "-", "-", "\n", "\n">>
text_end == <<"\n", "\n", "-", "-", "-", " ", "E", "N", "D", " ">>
text_end_end == <<" ", "-", "-", "-", "\n">>
markdown_content == <<"#", " ", "C", "o", "n", "t", "e", "n", "t">>

\* Line 354: the section of one document in combinedText.
Section(doc) ==
    text_begin \o toUpperCase(TypeChars[doc.type]) \o text_source
        \o doc.sourceUrl \o text_source_end \o doc.markdown
        \o text_end \o toUpperCase(TypeChars[doc.type]) \o text_end_end

\* Array.prototype.map(Section).join("\n")
RECURSIVE JoinSections(_, _)
JoinSections(docs, k) ==
    IF k > Len(docs) THEN <<>>
    ELSE (IF k > 1 THEN <<"\n">> ELSE <<>>) \o Section(docs[k])
            \o JoinSections(docs, k + 1)

\* Lines 344-364 with the documents.length === 0 test left out.
ScrapeOutcomeUnchecked(docs, errs) ==
    Returned([vendor |-> hostname, rootUrl |-> rootUrl, documents |-> docs,
              combinedText |-> JoinSections(docs, 1), errors |-> errs])

\* Lines 344-364: what scrapeVendorDocuments ends with after its loop.
ScrapeOutcome(docs, errs) ==
    IF Len(docs) = 0
    THEN Thrown("ScrapeError",
                [text |-> "All scrape attempts failed for ${hostname}. Errors: ${errors}",
                 hostname |-> hostname, errors |-> errs])
    ELSE Returned([vendor |-> hostname, rootUrl |-> rootUrl, documents |-> docs,
                   combinedText |-> JoinSections(docs, 1), errors |-> errs])

bare_domain == <<"a", ".", "i", "o">>
path_legal == <<"/", "l", "e", "g", "a", "l">>

\* Vendor URLs as the callers may pass them: with and without scheme, over
\* plain HTTP, naming an internal host, and without any host.
NonHttpsInputs == {scheme_http \o bare_domain, scheme_http \o host_localhost}

PrivateInputs == {scheme_https \o host_localhost, scheme_http \o host_localhost}

MalformedInputs == {scheme_https}

InputUrls ==
    {Origin, bare_domain} \cup NonHttpsInputs \cup PrivateInputs
        \cup MalformedInputs

\* What client.map may list: a terms page, a localized privacy page and an
\* index page that no pattern matches.
MapLinks ==
    {Plain(path_terms), Localized(locale_de_DE, path_privacy),
     Plain(path_legal)}

ClientCall(op, url, settled) ==
    clientCalls' = Append(clientCalls, [op |-> op, url |-> url, settled |-> settled])

\* Lines 88-95 with lines 13-27: what sanitizeUrl may throw for an input.
\* An input failing only the scheme or the host rule gives the Error built
\* from the first issue.  For a string that new URL does not accept the
\* url() check records its issue; whether the two refinements still run on
\* that string is up to the schema library: if they do not, the first issue
\* gives the Error, if they do, new URL(val) of line 16 throws its TypeError
\* out of safeParse.
sanitizeUrlThrows(input) ==
    IF sanitizeUrl(input).ok THEN {}
    ELSE {Thrown("Error", [text |-> "Invalid URL: ${message}",
                           message |-> sanitizeUrl(input).message])}
           \cup (IF isUrl(withScheme(trim(input))) THEN {}
                 ELSE {Thrown("TypeError", [text |-> "Invalid URL"])})

\* A validation failure that is noticed only after discovery was called.
SanitizeFailAfterMap ==
    /\ spc = "start"
    /\ \E thrown \in sanitizeUrlThrows(inputUrl) : outcome' = thrown
    /\ ClientCall("map", withScheme(trim(inputUrl)), "links")
    /\ spc' = "done"
    /\ UNCHANGED monitorVars
    /\ UNCHANGED diffVars
    /\ UNCHANGED <<inputUrl, rootUrl, hostname, links, matched,
                   discoveredPages, legalPages, page, documents, errors>>

\* Lines 312-313: sanitizeUrl throws.
SanitizeFail ==
    /\ spc = "start"
    /\ \E thrown \in sanitizeUrlThrows(inputUrl) : outcome' = thrown
    /\ spc' = "done"
    /\ UNCHANGED monitorVars
    /\ UNCHANGED diffVars
    /\ UNCHANGED <<inputUrl, rootUrl, hostname, links, matched,
                   discoveredPages, legalPages, page, documents, errors,
                   clientCalls>>

\* Lines 142-148: the input is valid, FIRECRAWL_API_KEY is not set.
NoApiKey ==
    /\ spc = "start"
    /\ sanitizeUrl(inputUrl).ok
    /\ rootUrl' = sanitizeUrl(inputUrl).url
    /\ hostname' = sanitizeUrl(inputUrl).hostname
    /\ outcome' = Thrown("ScrapeError",
                         [text |-> "FIRECRAWL_API_KEY is not set. Add it to .env.local."])
    /\ spc' = "done"
    /\ UNCHANGED monitorVars
    /\ UNCHANGED diffVars
    /\ UNCHANGED <<inputUrl, links, matched, discoveredPages, legalPages,
                   page, documents, errors, clientCalls>>

\* Lines 312-316: the input is valid, the client is built, client.map is
\* awaited.
SanitizeOk ==
    /\ spc = "start"
    /\ sanitizeUrl(inputUrl).ok
    /\ rootUrl' = sanitizeUrl(inputUrl).url
    /\ hostname' = sanitizeUrl(inputUrl).hostname
    /\ spc' = "map"
    /\ UNCHANGED monitorVars
    /\ UNCHANGED diffVars
    /\ UNCHANGED <<inputUrl, links, matched, discoveredPages, legalPages,
                   page, documents, errors, outcome, clientCalls>>

RECURSIVE MatchedFrom(_, _)
\* Lines 228-235: the links that classifyUrl gives a type, in their order.
MatchedFrom(ls, k) ==
    IF k > Len(ls) THEN <<>>
    ELSE (IF classifyUrl(ls[k]) # NullType THEN <<Entry(ls[k])>> ELSE <<>>)
            \o MatchedFrom(ls, k + 1)

\* Lines 217-237 and 317-324: client.map resolves with links out of
\* `listed`; they are classified, deduplicated and merged with the fallbacks.
MapOkFrom(listed) ==
    /\ spc = "map"
    /\ \E ls \in SeqsUpTo(listed, MaxLinks) :
          /\ Len(ls) > 0
          /\ links' = ls
          /\ matched' = MatchedFrom(ls, 1)
          /\ discoveredPages' = deduplicateByType(MatchedFrom(ls, 1))
          /\ legalPages' = mergeWithFallbacks(
                              rootUrl, deduplicateByType(MatchedFrom(ls, 1)))
    /\ ClientCall("map", rootUrl, "links")
    /\ IF Len(legalPages') = 0
       THEN /\ outcome' = Thrown("ScrapeError",
                    [text |-> "No legal document pages (terms, privacy, DPA) found on ${hostname}. The site may use non-standard URL patterns or block crawlers.",
                     hostname |-> hostname])
            /\ spc' = "done"
       ELSE /\ outcome' = outcome
            /\ spc' = "scrape"
    /\ UNCHANGED monitorVars
    /\ UNCHANGED diffVars
    /\ UNCHANGED <<inputUrl, rootUrl, hostname, page, documents, errors>>

\* Discovery whose result is used as it is, without the fallback paths.
MapOkWithoutFallbacks ==
    /\ spc = "map"
    /\ \E ls \in SeqsUpTo(MapLinks, MaxLinks) :
          /\ Len(ls) > 0
          /\ links' = ls
          /\ matched' = MatchedFrom(ls, 1)
          /\ discoveredPages' = deduplicateByType(MatchedFrom(ls, 1))
          /\ legalPages' = deduplicateByType(MatchedFrom(ls, 1))
    /\ ClientCall("map", rootUrl, "links")
    /\ IF Len(legalPages') = 0
       THEN /\ outcome' = Thrown("ScrapeError",
                    [text |-> "No legal document pages (terms, privacy, DPA) found on ${hostname}. The site may use non-standard URL patterns or block crawlers.",
                     hostname |-> hostname])
            /\ spc' = "done"
       ELSE /\ outcome' = outcome
            /\ spc' = "scrape"
    /\ UNCHANGED monitorVars
    /\ UNCHANGED diffVars
    /\ UNCHANGED <<inputUrl, rootUrl, hostname, page, documents, errors>>

MapOk == MapOkFrom(MapLinks)

\* A discovery without links that goes on to the fallback paths.
MapEmptyTriesFallbacks ==
    /\ spc = "map"
    /\ ClientCall("map", rootUrl, "no links")
    /\ legalPages' = mergeWithFallbacks(rootUrl, <<>>)
    /\ spc' = "scrape"
    /\ UNCHANGED monitorVars
    /\ UNCHANGED diffVars
    /\ UNCHANGED <<inputUrl, rootUrl, hostname, links, matched,
                   discoveredPages, page, documents, errors, outcome>>

\* Lines 222-226: client.map resolves without links.
MapEmpty ==
    /\ spc = "map"
    /\ ClientCall("map", rootUrl, "no links")
    /\ outcome' = Thrown("ScrapeError",
            [text |-> "Firecrawl map returned no links for ${rootUrl}. The site may be blocking crawlers.",
             rootUrl |-> rootUrl])
    /\ spc' = "done"
    /\ UNCHANGED monitorVars
    /\ UNCHANGED diffVars
    /\ UNCHANGED <<inputUrl, rootUrl, hostname, links, matched,
                   discoveredPages, legalPages, page, documents, errors>>

\* Line 217: client.map rejects; nothing in scrapeVendorDocuments catches it.
MapReject ==
    /\ spc = "map"
    /\ ClientCall("map", rootUrl, "rejected")
    /\ outcome' = Thrown("Error", [text |-> "Map failed"])
    /\ spc' = "done"
    /\ UNCHANGED monitorVars
    /\ UNCHANGED diffVars
    /\ UNCHANGED <<inputUrl, rootUrl, hostname, links, matched,
                   discoveredPages, legalPages, page, documents, errors>>

\* Lines 330-364: the loop goes to the next page, or ends and the function
\* throws or returns.
AfterPage(docs, errs) ==
    /\ documents' = docs
    /\ errors' = errs
    /\ IF page < Len(legalPages)
       THEN /\ page' = page + 1
            /\ spc' = "scrape"
            /\ outcome' = outcome
       ELSE /\ page' = page
            /\ spc' = "done"
            /\ outcome' = ScrapeOutcome(docs, errs)

\* Lines 247-257 and 332-337: client.scrape resolves with markdown.
ScrapePageOk ==
    /\ spc = "scrape"
    /\ ClientCall("scrape", legalPages[page].url, "markdown")
    /\ AfterPage(Append(documents, [type |-> legalPages[page].type,
                                    sourceUrl |-> legalPages[page].url,
                                    markdown |-> markdown_content]),
                 errors)
    /\ UNCHANGED monitorVars
    /\ UNCHANGED diffVars
    /\ UNCHANGED <<inputUrl, rootUrl, hostname, links, matched,
                   discoveredPages, legalPages>>

\* Lines 253-255 and 338-341: client.scrape resolves without markdown.
ScrapePageEmpty ==
    /\ spc = "scrape"
    /\ ClientCall("scrape", legalPages[page].url, "no markdown")
    /\ AfterPage(documents,
                 Append(errors,
                        [url |-> legalPages[page].url,
                         message |-> [text |-> "No markdown content returned for ${url}",
                                      url |-> legalPages[page].url]]))
    /\ UNCHANGED monitorVars
    /\ UNCHANGED diffVars
    /\ UNCHANGED <<inputUrl, rootUrl, hostname, links, matched,
                   discoveredPages, legalPages>>

\* A rejected fetch that ends the whole run with its error.
ScrapePageRejectAborts ==
    /\ spc = "scrape"
    /\ ClientCall("scrape", legalPages[page].url, "rejected")
    /\ outcome' = Thrown("Error", [text |-> "Not found"])
    /\ spc' = "done"
    /\ UNCHANGED monitorVars
    /\ UNCHANGED diffVars
    /\ UNCHANGED <<inputUrl, rootUrl, hostname, links, matched,
                   discoveredPages, legalPages, page, documents, errors>>

\* Lines 247 and 338-341: client.scrape rejects.
ScrapePageReject ==
    /\ spc = "scrape"
    /\ ClientCall("scrape", legalPages[page].url, "rejected")
    /\ AfterPage(documents,
                 Append(errors, [url |-> legalPages[page].url,
                                 message |-> [text |-> "Not found"]]))
    /\ UNCHANGED monitorVars
    /\ UNCHANGED diffVars
    /\ UNCHANGED <<inputUrl, rootUrl, hostname, links, matched,
                   discoveredPages, legalPages>>

InitScrape ==
    /\ InitStore({"A"})
    /\ pool = MonitorPool
    /\ overlap = FALSE
    /\ InitLocals
    /\ InitDiff
    /\ inputUrl \in InputUrls
    /\ rootUrl = <<>>
    /\ hostname = <<>>
    /\ links = <<>>
    /\ matched = <<>>
    /\ discoveredPages = <<>>
    /\ legalPages = <<>>
    /\ page = 1
    /\ documents = <<>>
    /\ errors = <<>>
    /\ outcome = [kind |-> "none"]
    /\ spc = "start"
    /\ clientCalls = <<>>

ScrapeNext ==
    \/ SanitizeFail \/ NoApiKey \/ SanitizeOk
    \/ MapOk \/ MapEmpty \/ MapReject
    \/ ScrapePageOk \/ ScrapePageEmpty \/ ScrapePageReject

SpecScrape == InitScrape /\ [][ScrapeNext]_vars

(***************************************************************************)
(* sanitizeUrl applied to hosts in and around the private address ranges.  *)
(***************************************************************************)
\* The first two bytes of the addresses tried: the ranges and their
\* neighbours on both sides.
FirstOctets ==
    {0, 8, 9, 10, 11, 126, 127, 128, 168, 169, 170, 171, 172, 173, 191, 192,
     193}

SecondOctets == {0, 15, 16, 17, 31, 32, 167, 168, 169, 253, 254, 255}

LastOctets == {<<0, 1>>, <<255, 255>>}

Quads ==
    {<<a, b, cd[1], cd[2]>> : a \in FirstOctets, b \in SecondOctets,
                              cd \in LastOctets}

\* Other spellings of an address that new URL reads as the same four bytes,
\* and addresses followed by a port or a path or preceded by credentials.
AlternativeForms ==
    {[rest |->
          <<"1", "2", "7", ".", "1">>,
      quad |-> <<127, 0, 0, 1>>],
     [rest |->
          <<"0", "x", "7", "f", ".", "0", ".", "0", ".", "1">>,
      quad |-> <<127, 0, 0, 1>>],
     [rest |->
          <<"0", "1", "2", ".", "0", ".", "0", ".", "1">>,
      quad |-> <<10, 0, 0, 1>>],
     [rest |->
          <<"0", "1", "0", ".", "0", ".", "0", ".", "1">>,
      quad |-> <<8, 0, 0, 1>>],
     [rest |->
          <<"2", "1", "3", "0", "7", "0", "6", "4", "3", "3">>,
      quad |-> <<127, 0, 0, 1>>],
     [rest |->
          <<"1", "0", ".", "0", ".", "0", ".", "1", ".">>,
      quad |-> <<10, 0, 0, 1>>],
     [rest |->
          <<"1", "0", ".", "0", ".", "0", ".", "1", ":", "8", "4", "4",
            "3">>,
      quad |-> <<10, 0, 0, 1>>],
     [rest |->
          <<"u", "s", "e", "r", "@", "1", "0", ".", "0", ".", "0", ".",
            "1">>,
      quad |-> <<10, 0, 0, 1>>],
     [rest |->
          <<"1", "9", "2", ".", "1", "6", "8", ".", "0", ".", "1", "/", "a",
            "d", "m", "i", "n">>,
      quad |-> <<192, 168, 0, 1>>],
     [rest |->
          <<"1", "6", "9", ".", "2", "5", "4", ".", "1", "6", "9", ".", "2",
            "5", "4", "/", "l", "a", "t", "e", "s", "t", "?", "x", "=",
            "1">>,
      quad |-> <<169, 254, 169, 254>>],
     [rest |->
          <<"0", ".", "0", ".", "0", ".", "0">>,
      quad |-> <<0, 0, 0, 0>>],
     [rest |->
          <<"8", ".", "8", ".", "8", ".", "8">>,
      quad |-> <<8, 8, 8, 8>>]}

Ipv4Forms == {[rest |-> dotted(q), quad |-> q] : q \in Quads} \cup AlternativeForms

\* Hosts that are internal by their name, and the IPv6 loopback.
InternalNames ==
    {<<"l", "o", "c", "a", "l", "h", "o", "s", "t">>,
     <<"L", "O", "C", "A", "L", "H", "O", "S", "T">>,
     <<"l", "o", "c", "a", "l", "h", "o", "s", "t", ":", "3", "0", "0",
       "0">>,
     <<"f", "o", "o", ".", "l", "o", "c", "a", "l">>,
     <<"p", "r", "i", "n", "t", "e", "r", ".", "L", "O", "C", "A", "L">>,
     <<"f", "o", "o", ".", "i", "n", "t", "e", "r", "n", "a", "l">>,
     <<"d", "b", ".", "c", "o", "r", "p", ".", "i", "n", "t", "e", "r", "n",
       "a", "l", "/", "x">>,
     <<"[", ":", ":", "1", "]">>,
     <<"[", ":", ":", "1", "]", ":", "8", "0", "8", "0">>}

example_com == <<"e", "x", "a", "m", "p", "l", "e", ".", "c", "o", "m">>

\* Public hosts, some of them with an internal-looking label.
PublicNames ==
    {<<"e", "x", "a", "m", "p", "l", "e", ".", "c", "o", "m">>,
     <<"a", ".", "i", "o">>,
     <<"s", "u", "b", ".", "e", "x", "a", "m", "p", "l", "e", ".", "c", "o",
       "m", "/", "p", "a", "t", "h", "?", "q", "=", "1">>,
     <<"l", "o", "c", "a", "l", "h", "o", "s", "t", ".", "e", "x", "a", "m",
       "p", "l", "e", ".", "c", "o", "m">>,
     <<"i", "n", "t", "e", "r", "n", "a", "l", ".", "e", "x", "a", "m", "p",
       "l", "e", ".", "c", "o", "m">>,
     <<"l", "o", "c", "a", "l", ".", "e", "x", "a", "m", "p", "l", "e", ".",
       "c", "o", "m">>}

\* What a caller may hand to sanitizeUrl: full https URLs, bare domains, and
\* input with blanks around it.
SanitizeInputs ==
    {scheme_https \o f.rest : f \in Ipv4Forms}
        \cup {scheme_https \o n : n \in InternalNames \cup PublicNames}
        \cup PublicNames
        \cup {<<" ">> \o n \o <<" ", "\n">> : n \in PublicNames}
        \cup {scheme_http \o example_com}

InitSanitize ==
    /\ InitStore({"A"})
    /\ pool = MonitorPool
    /\ overlap = FALSE
    /\ InitLocals
    /\ InitDiff
    /\ inputUrl \in SanitizeInputs
    /\ rootUrl = <<>>
    /\ hostname = <<>>
    /\ links = <<>>
    /\ matched = <<>>
    /\ discoveredPages = <<>>
    /\ legalPages = <<>>
    /\ page = 1
    /\ documents = <<>>
    /\ errors = <<>>
    /\ outcome = [kind |-> "none"]
    /\ spc = "start"
    /\ clientCalls = <<>>

SanitizeNext == SanitizeFail \/ SanitizeOk

SpecSanitize == InitSanitize /\ [][SanitizeNext]_vars

(***************************************************************************)
(* diffScorecards applied to every pair of scorecards of a pool, and to    *)
(* null with every scorecard of it.                                        *)
(***************************************************************************)
\* The risk levels of the three categories, as the pool varies them.
CategoryLevels ==
    {<<"LOW", "LOW", "LOW">>, <<"HIGH", "LOW", "LOW">>,
     <<"LOW", "MEDIUM", "LOW">>, <<"LOW", "LOW", "CRITICAL">>,
     <<"HIGH", "MEDIUM", "NONE">>}

\* The findings of the three categories: two titles, none, one or both
\* present, the same title in several categories and with another severity.
CategoryFindings ==
    {<<f1, f2, f3>> :
        f1 \in {<<>>, <<Finding("T1", "HIGH")>>,
                <<Finding("T1", "HIGH"), Finding("T2", "LOW")>>},
        f2 \in {<<>>, <<Finding("T1", "MEDIUM")>>},
        f3 \in {<<>>, <<Finding("T2", "LOW")>>}}

DiffPool ==
    {MkScorecard(overall, CategoryResult(l[1], f[1]), CategoryResult(l[2], f[2]),
                 CategoryResult(l[3], f[3]), "Summary.") :
        overall \in {"LOW", "HIGH"}, l \in CategoryLevels,
        f \in CategoryFindings}

InitDiffInputs ==
    /\ InitStore({"A"})
    /\ pool = MonitorPool
    /\ overlap = FALSE
    /\ InitLocals
    /\ InitScraper
    /\ diffPrevious \in DiffPool \cup {NullScorecard}
    /\ diffCurrent \in DiffPool
    /\ diffReturned = [kind |-> "none"]

\* The call diffScorecards(previous, current).
Diff ==
    /\ diffReturned.kind = "none"
    /\ diffCurrent # NullScorecard
    /\ diffReturned' = Returned(diffScorecards(diffPrevious, diffCurrent))
    /\ UNCHANGED <<diffPrevious, diffCurrent>>
    /\ UNCHANGED monitorVars
    /\ UNCHANGED scraperVars

DiffNext == Diff

SpecDiff == InitDiffInputs /\ [][DiffNext]_vars

(***************************************************************************)
(* classifyUrl applied to the links of a discovery, followed by the        *)
(* deduplication and the merge with the fallbacks.                         *)
(***************************************************************************)
MaxMapped == 2

SubdomainOrigin ==
    <<"h", "t", "t", "p", "s", ":", "/", "/", "t", "o", "s", ".", "a", ".",
      "i", "o">>

path_about == <<"/", "a", "b", "o", "u", "t">>

path_policies == <<"/", "p", "o", "l", "i", "c", "i", "e", "s">>

path_privacy_terms ==
    <<"/", "p", "r", "i", "v", "a", "c", "y", "/", "t", "e", "r", "m", "s">>

path_dpa_subprocessors ==
    <<"/", "d", "p", "a", "/", "s", "u", "b", "p", "r", "o", "c", "e", "s",
      "s", "o", "r", "s">>

path_Privacy_Policy ==
    <<"/", "P", "r", "i", "v", "a", "c", "y", "-", "P", "o", "l", "i", "c",
      "y">>

query_next_privacy ==
    <<"?", "n", "e", "x", "t", "=", "/", "p", "r", "i", "v", "a", "c", "y">>

\* The paths of the links tried: pages that are no legal documents, index
\* pages, a page of one category and pages that two categories match.
ClassifyPaths ==
    {path_about, path_legal, path_policies, path_terms, path_Privacy_Policy,
     path_privacy_terms, path_dpa_subprocessors}

\* The links client.map may list: each path on the vendor's host and on a
\* subdomain of it, and a page linked with a query string.
ClassifyLinks ==
    {Origin \o p : p \in ClassifyPaths}
        \cup {SubdomainOrigin \o p : p \in ClassifyPaths}
        \cup {Origin \o path_about \o query_next_privacy}

InitClassify ==
    /\ InitStore({"A"})
    /\ pool = MonitorPool
    /\ overlap = FALSE
    /\ InitLocals
    /\ InitDiff
    /\ inputUrl = Origin
    /\ rootUrl = Origin
    /\ hostname = bare_domain
    /\ links \in SeqsUpTo(ClassifyLinks, MaxMapped)
    /\ Len(links) > 0
    /\ matched = <<>>
    /\ discoveredPages = <<>>
    /\ legalPages = <<>>
    /\ page = 1
    /\ documents = <<>>
    /\ errors = <<>>
    /\ outcome = [kind |-> "none"]
    /\ spc = "links"
    /\ clientCalls = <<>>

\* Lines 228-235: the loop that classifies the links and keeps the
\* classified ones.
Classify ==
    /\ spc = "links"
    /\ matched' = MatchedFrom(links, 1)
    /\ spc' = "matched"
    /\ UNCHANGED monitorVars
    /\ UNCHANGED diffVars
    /\ UNCHANGED <<inputUrl, rootUrl, hostname, links, discoveredPages,
                   legalPages, page, documents, errors, outcome, clientCalls>>

ClassifyNext == Classify \/ Deduplicate \/ Merge

SpecClassify == InitClassify /\ [][ClassifyNext]_vars

(***************************************************************************)
(* Vocabulary of the properties.                                           *)
(***************************************************************************)
VendorIds == {"A", "B", "C"}

SelectedIds(i) == {vendors[i][k].id : k \in 1..Len(vendors[i])}

ThrownIds(i) == {threw[i][k].vendorId : k \in 1..Len(threw[i])}

CallsOf(i, op, v) ==
    {k \in 1..Len(calls[i]) : calls[i][k].op = op /\ calls[i][k].vendorId = v}

CallCount(i, op) == Cardinality({k \in 1..Len(calls[i]) : calls[i][k].op = op})

\* The run of vendor v in invocation i reached the end of the try block.
Completed(i, v) ==
    \E k \in CallsOf(i, "vendor.update", v) : calls[i][k].ok

TitleSet(sc) ==
    UNION {{sc.categories[key].findings[k].title :
                k \in 1..Len(sc.categories[key].findings)} :
           key \in Range(CATEGORY_KEYS)}

\* Materiality as section 4.6 step 4 states it, on two scorecards.
IsMaterial(previous, current) ==
    \/ previous = NullScorecard
    \/ previous.overallRiskLevel # current.overallRiskLevel
    \/ \E key \in Range(CATEGORY_KEYS) :
          previous.categories[key].riskLevel # current.categories[key].riskLevel
    \/ TitleSet(previous) # TitleSet(current)

\* NONE < LOW < MEDIUM < HIGH < CRITICAL
LevelRank(level) ==
    CHOOSE n \in 1..5 : <<"NONE", "LOW", "MEDIUM", "HIGH", "CRITICAL">>[n] = level

\* A step in which an audit entry is appended.
AuditAppended == Len(auditLog') = Len(auditLog) + 1

(***************************************************************************)
(* C1. When runMonitorCycle returns, whatever subset of the batch threw    *)
(* (at discovery, extraction, validation, audit write or rotation):        *)
(* scanned is the batch size, errors holds exactly one entry per vendor    *)
(* that threw, with its id and message, and every other vendor of the      *)
(* batch was processed through to its state rotation.                      *)
(***************************************************************************)
C1_ErrorIsolation ==
    \A i \in Invocations : pc[i] = "done" =>
        /\ result[i].scanned = Len(vendors[i])
        /\ result[i].errors = threw[i]
        /\ \A j, k \in 1..Len(result[i].errors) :
              result[i].errors[j].vendorId = result[i].errors[k].vendorId => j = k
        /\ \A v \in SelectedIds(i) \ ThrownIds(i) :
              /\ Completed(i, v)
              /\ vendorTable[v].latestScanAt = startedAt[i]
              /\ vendorTable[v].latestScorecard # NullScorecard

\* A batch of two returned: the first vendor threw, the second was rotated.
C1_Witness ==
    /\ pc[1] = "done"
    /\ Len(vendors[1]) = 2
    /\ ThrownIds(1) = {vendors[1][1].id}
    /\ Completed(1, vendors[1][2].id)

C3_Rotation ==
    [][\A i \in Invocations :
          (/\ pc[i] = "rotate"
           /\ result'[i].scanned = result[i].scanned + 1
           /\ result'[i].errors = result[i].errors)
          => LET v == vendors[i][idx[i]].id
             IN vendorTable'[v] =
                  [previousScorecard |-> vendorTable[v].latestScorecard,
                   previousScanAt |-> vendorTable[v].latestScanAt,
                   latestScorecard |-> validated[i],
                   latestScanAt |-> now]]_vars

\* A vendor rotated twice, the second time to a different scorecard.
C3_Witness ==
    \E v \in DOMAIN vendorTable :
        /\ vendorTable[v].previousScorecard # NullScorecard
        /\ vendorTable[v].previousScanAt # NullTime
        /\ vendorTable[v].latestScorecard # vendorTable[v].previousScorecard
        /\ vendorTable[v].latestScanAt = now

(***************************************************************************)
(* C4. The eventType of an audit entry follows a fixed precedence:         *)
(* initial_scan iff no previous scorecard existed; otherwise a risk event  *)
(* whenever the overall level changed, even if findings were added or      *)
(* removed; otherwise new_finding whenever a new finding exists, even if   *)
(* findings were removed; otherwise finding_removed when findings were     *)
(* removed.                                                                *)
(***************************************************************************)
C4_EventPrecedence ==
    [][AuditAppended =>
          LET e == auditLog'[Len(auditLog')]
              previous == vendorTable[e.vendorId].latestScorecard
              current == e.scorecard
              new == TitleSet(current) \ TitleSet(previous)
              removed == TitleSet(previous) \ TitleSet(current)
          IN /\ (e.eventType = "initial_scan") <=> (previous = NullScorecard)
             /\ previous # NullScorecard =>
                  IF previous.overallRiskLevel # current.overallRiskLevel
                  THEN e.eventType \in {"risk_increased", "risk_decreased"}
                  ELSE IF new # {} THEN e.eventType = "new_finding"
                  ELSE removed # {} => e.eventType = "finding_removed"]_vars

\* An entry classified new_finding although a finding was removed as well,
\* and a risk event although the findings changed too.
C4_Witness ==
    /\ \E k \in 1..Len(auditLog) :
          /\ auditLog[k].eventType = "new_finding"
          /\ Len(auditLog[k].diff.removedFindings) > 0
    /\ \E k \in 1..Len(auditLog) :
          /\ auditLog[k].eventType \in {"risk_increased", "risk_decreased"}
          /\ Len(auditLog[k].diff.newFindings) > 0

(***************************************************************************)
(* C5. With a previous scorecard and a changed overall level, eventType is *)
(* risk_increased exactly when the new level is strictly higher than the   *)
(* old one in NONE < LOW < MEDIUM < HIGH < CRITICAL, and risk_decreased for *)
(* every other pair of distinct levels.                                    *)
(***************************************************************************)
C5_OrdinalComparison ==
    [][AuditAppended =>
          LET e == auditLog'[Len(auditLog')]
              previous == vendorTable[e.vendorId].latestScorecard
              current == e.scorecard
          IN (/\ previous # NullScorecard
              /\ previous.overallRiskLevel # current.overallRiskLevel)
             => e.eventType =
                  IF LevelRank(current.overallRiskLevel)
                        > LevelRank(previous.overallRiskLevel)
                  THEN "risk_increased" ELSE "risk_decreased"]_vars

\* HIGH to LOW audited as a decrease: a pair that the order of the level
\* names as strings would call an increase.
C5_Witness ==
    \E k \in 1..Len(auditLog) :
        /\ auditLog[k].eventType = "risk_decreased"
        /\ auditLog[k].diff.previousRisk = "HIGH"
        /\ auditLog[k].diff.currentRisk = "LOW"

(***************************************************************************)
(* C6. A material run with a previous scorecard, an unchanged overall      *)
(* level, no new finding and no removed finding (category-level changes    *)
(* only) is classified change_detected, not with a finding event.          *)
(***************************************************************************)
C6_CategoryOnlyIsGeneric ==
    \A k \in 1..Len(auditLog) :
        LET d == auditLog[k].diff
        IN (/\ d.previousRisk # NullRisk
            /\ ~d.overallRiskChanged
            /\ Len(d.newFindings) = 0
            /\ Len(d.removedFindings) = 0)
           => auditLog[k].eventType = "change_detected"

(***************************************************************************)
(* C7. One invocation selects at most 2 vendors and makes at most 2        *)
(* discovery calls and at most 2 extraction calls, however many vendors    *)
(* are stale.                                                              *)
(***************************************************************************)
C7_BatchBound ==
    \A i \in Invocations :
        /\ Len(vendors[i]) <= 2
        /\ CallCount(i, "scrapeVendorDocuments") <= 2
        /\ CallCount(i, "generateObject") <= 2

\* Three vendors were stale; the invocation returned after two of each call.
C7_Witness ==
    /\ pc[1] = "done"
    /\ Cardinality(staleSeen[1]) > 2
    /\ CallCount(1, "scrapeVendorDocuments") = 2
    /\ CallCount(1, "generateObject") = 2

(***************************************************************************)
(* C8. An invocation selects only vendors whose latestScanAt is null or    *)
(* more than 24 hours before it, and a vendor whose state was rotated is   *)
(* not selected again until more than 24 hours have passed since that      *)
(* rotation.                                                               *)
(***************************************************************************)
C8_OnlyStaleSelected ==
    [][\A i \in Invocations :
          (pc[i] = "idle" /\ pc'[i] # "idle") =>
              \A k \in 1..Len(vendors'[i]) :
                  LET row == vendors'[i][k]
                  IN /\ \/ vendorTable[row.id].latestScanAt = NullTime
                        \/ now - vendorTable[row.id].latestScanAt
                              > 24 * 60 * 60 * 1000
                     /\ \/ rotatedAt[row.id] = NullTime
                        \/ now - rotatedAt[row.id] > 24 * 60 * 60 * 1000]_vars

\* A vendor rotated earlier is in the batch of a later invocation.
C8_Witness ==
    \E i \in Invocations : \E k \in 1..Len(vendors[i]) :
        /\ pc[i] # "idle"
        /\ vendors[i][k].latestScanAt # NullTime
        /\ rotatedAt[vendors[i][k].id] # NullTime

(***************************************************************************)
(* C9. When more than 2 vendors are stale, the 2 selected are those with   *)
(* the oldest scans, a never-scanned vendor (null latestScanAt) counting   *)
(* as older than every scanned one.                                        *)
(***************************************************************************)
C9_OldestFirstNullsFirst ==
    \A i \in Invocations :
        (pc[i] # "idle" /\ Cardinality(staleSeen[i]) > 2) =>
            /\ Len(vendors[i]) = 2
            /\ \A k \in 1..Len(vendors[i]) :
                  \A r \in staleSeen[i] \ Range(vendors[i]) :
                      \/ vendors[i][k].latestScanAt = NullTime
                      \/ /\ r.latestScanAt # NullTime
                         /\ vendors[i][k].latestScanAt <= r.latestScanAt

(***************************************************************************)
(* C10. Under repeated invocation every stale vendor is eventually         *)
(* selected by some invocation, also when the runs of the other vendors    *)
(* fail on every attempt.                                                  *)
(***************************************************************************)
C10_BacklogDrains ==
    \A v \in VendorIds :
        (\/ vendorTable[v].latestScanAt = NullTime
         \/ now - vendorTable[v].latestScanAt > 24 * 60 * 60 * 1000)
            ~> (\E i \in Invocations : pc[i] # "idle" /\ v \in SelectedIds(i))

\* The run of some vendor in invocation i ends, in this step, in the catch
\* block with one of the given messages.
RunFailsWith(i, messages) ==
    /\ Len(threw'[i]) = Len(threw[i]) + 1
    /\ threw'[i][Len(threw'[i])].message \in messages

AuditEntriesOf(v) == {k \in 1..Len(auditLog) : auditLog[k].vendorId = v}

(***************************************************************************)
(* C11. A vendor whose run fails at discovery, extraction or schema        *)
(* validation gets no AuditEvent and keeps its four stored fields          *)
(* unchanged: they are what the invocation selected, so the vendor is      *)
(* still stale and the next invocation's filter accepts it.                *)
(***************************************************************************)
C11_FailedRunKeepsVendor ==
    [][\A i \in Invocations :
          RunFailsWith(i, {"Scrape failed", "Generation failed",
                           "Invalid scorecard"})
          => LET row == vendors[i][idx[i]]
                 v == row.id
             IN /\ auditLog' = auditLog
                /\ \A k \in 1..Len(calls'[i]) :
                      calls'[i][k].vendorId = v =>
                          calls'[i][k].op \notin {"auditLog.create", "vendor.update"}
                /\ vendorTable'[v] = vendorTable[v]
                /\ vendorTable'[v] =
                      [latestScorecard |-> row.latestScorecard,
                       latestScanAt |-> row.latestScanAt,
                       previousScorecard |-> row.previousScorecard,
                       previousScanAt |-> row.previousScanAt]
                /\ \/ vendorTable'[v].latestScanAt = NullTime
                   \/ now' - vendorTable'[v].latestScanAt
                         > 24 * 60 * 60 * 1000]_vars

\* A vendor scanned once, stale again two days later, whose second run
\* failed at extraction: it still holds the first scan.
C11_Witness ==
    \E k \in 1..Len(threw[1]) :
        /\ pc[1] = "done"
        /\ threw[1][k].message = "Generation failed"
        /\ vendorTable[threw[1][k].vendorId].latestScorecard # NullScorecard
        /\ now - vendorTable[threw[1][k].vendorId].latestScanAt
              > 24 * 60 * 60 * 1000

(***************************************************************************)
(* C12. If a cycle is terminated while a vendor is being processed and a   *)
(* later invocation processes the vendor again with the same scorecard,    *)
(* the persisted result is that of one uninterrupted run: the vendor's     *)
(* change (here its initial scan) is audited exactly once.                 *)
(***************************************************************************)
C12_RestartIdempotent ==
    \A v \in DOMAIN vendorTable :
        /\ Cardinality(AuditEntriesOf(v)) <= 1
        /\ vendorTable[v].latestScorecard # NullScorecard
              => Cardinality(AuditEntriesOf(v)) = 1

(***************************************************************************)
(* C13. When no vendor is stale, runMonitorCycle returns scanned = 0,      *)
(* changed = 0 and no errors, and makes no discovery call, no extraction   *)
(* call, no audit write and no vendor update.                              *)
(***************************************************************************)
C13_NothingStaleNothingDone ==
    \A i \in Invocations :
        (pc[i] # "idle" /\ staleSeen[i] = {}) =>
            /\ pc[i] = "done"
            /\ result[i].scanned = 0
            /\ result[i].changed = 0
            /\ result[i].errors = <<>>
            /\ calls[i] = <<>>

\* An invocation found the only vendor scanned a day ago, hence not stale.
C13_Witness ==
    /\ pc[1] = "done"
    /\ staleSeen[1] = {}
    /\ \E v \in DOMAIN vendorTable :
          /\ vendorTable[v].latestScanAt # NullTime
          /\ now - vendorTable[v].latestScanAt = 24 * 60 * 60 * 1000

(***************************************************************************)
(* C14. The audit log is append-only: no step of any cycle modifies or     *)
(* removes an existing entry, and an appended entry carries the id of the  *)
(* vendor being processed, the diff of its stored scorecard against the    *)
(* new one, and the new scorecard as its snapshot.                         *)
(***************************************************************************)
C14_AppendOnly ==
    [][\/ auditLog' = auditLog
       \/ /\ Len(auditLog') = Len(auditLog) + 1
          /\ SubSeq(auditLog', 1, Len(auditLog)) = auditLog
          /\ \E i \in Invocations :
                LET e == auditLog'[Len(auditLog')]
                    row == vendors[i][idx[i]]
                IN /\ pc[i] = "audit"
                   /\ e.vendorId = row.id
                   /\ e.scorecard = scorecard[i]
                   /\ e.diff = diffScorecards(vendorTable[row.id].latestScorecard,
                                              scorecard[i])]_vars

\* The log holds entries of two vendors, the later one of the vendor that
\* came second in its batch.
C14_Witness ==
    /\ Len(auditLog) >= 2
    /\ auditLog[1].vendorId # auditLog[2].vendorId
    /\ \E i \in Invocations :
          /\ pc[i] = "rotate"
          /\ idx[i] = 2
          /\ auditLog[Len(auditLog)].vendorId = vendors[i][2].id

TypesOf(entries) == {entries[k].type : k \in 1..Len(entries)}

CandidatesOf(entries, type) ==
    {entries[k].url : k \in {j \in 1..Len(entries) : entries[j].type = type}}

EntriesOfType(entries, type) == {k \in 1..Len(entries) : entries[k].type = type}

\* The first conventional path that FALLBACK_PATHS lists for a type.
FirstPath(type) ==
    FALLBACK_PATHS[CHOOSE k \in 1..Len(FALLBACK_PATHS) :
        /\ FALLBACK_PATHS[k].type = type
        /\ \A j \in 1..(k - 1) : FALLBACK_PATHS[j].type # type].path

(***************************************************************************)
(* C15. For any list of candidates in any order: if at least one candidate *)
(* of a category is non-localized (has no locale segment in its path),     *)
(* the URL deduplicateByType keeps for the category is non-localized,      *)
(* whatever the lengths of the URLs.                                       *)
(***************************************************************************)
C15_NonLocalizedWins ==
    spc \in {"discovered", "merged"} =>
        \A type \in DocumentType :
            CandidatesOf(matched, type) \cap PlainLinks # {} =>
                CandidatesOf(discoveredPages, type) \subseteq PlainLinks

\* The long non-localized URL came first and was kept against the shorter
\* localized one that followed.
C15_Witness ==
    /\ spc = "discovered"
    /\ matched = <<Entry(Plain(path_terms_of_use)),
                   Entry(Localized(locale_de, path_tos))>>
    /\ discoveredPages = <<Entry(Plain(path_terms_of_use))>>

(***************************************************************************)
(* C16. For any two URLs a and b of the same category, also distinct URLs  *)
(* of equal length and equal localization status, deduplicateByType        *)
(* selects the same URL for [a, b] as for [b, a].                          *)
(***************************************************************************)
C16_OrderIndependent ==
    (/\ spc = "discovered"
     /\ Len(matched) = 2
     /\ matched[1].type = matched[2].type)
    => discoveredPages = deduplicateByType(<<matched[2], matched[1]>>)

(***************************************************************************)
(* C17. deduplicateByType returns exactly one entry for each category      *)
(* present in its input and none for a category absent from it, and each   *)
(* returned URL is one of the input's candidates of that category.         *)
(***************************************************************************)
C17_OnePerCategory ==
    spc \in {"discovered", "merged"} =>
        /\ \A type \in DocumentType \cup {NullType} :
              Cardinality(EntriesOfType(discoveredPages, type))
                 = IF EntriesOfType(matched, type) # {} THEN 1 ELSE 0
        /\ \A k \in 1..Len(discoveredPages) :
              discoveredPages[k].url
                 \in CandidatesOf(matched, discoveredPages[k].type)

\* Three candidates of two categories gave two entries.
C17_Witness ==
    /\ spc = "discovered"
    /\ Len(matched) = 3
    /\ TypesOf(matched) = {"tos", "privacy"}
    /\ Len(discoveredPages) = 2

(***************************************************************************)
(* C18. mergeWithFallbacks returns exactly one URL for each of tos,        *)
(* privacy, dpa and subprocessor whatever discovery found (nothing         *)
(* included), and for a category with no discovered URL that URL is the    *)
(* root URL followed by the first conventional path listed for it.         *)
(***************************************************************************)
C18_FallbacksFill ==
    spc = "merged" =>
        /\ Len(legalPages) = 4
        /\ \A type \in {"tos", "privacy", "dpa", "subprocessor"} :
              /\ Cardinality(EntriesOfType(legalPages, type)) = 1
              /\ type \notin TypesOf(discoveredPages) =>
                    CandidatesOf(legalPages, type) = {rootUrl \o FirstPath(type)}

\* Discovery found a terms page only: it is kept, the other three
\* categories are filled in.
C18_Witness ==
    /\ spc = "merged"
    /\ discoveredPages = <<Entry(Plain(path_terms))>>
    /\ CandidatesOf(legalPages, "tos") = {Plain(path_terms)}
    /\ Len(legalPages) = 4

\* The client.scrape calls made so far, and those that gave markdown.
ScrapeCalls == {k \in 1..Len(clientCalls) : clientCalls[k].op = "scrape"}

FetchedCalls == {k \in ScrapeCalls : clientCalls[k].settled = "markdown"}

\* "--- BEGIN <TYPE> (source: <url>) ---" and "--- END <TYPE> ---"
BeginMarker(type, url) ==
    <<"-", "-", "-", " ", "B", "E", "G", "I", "N", " ">>
        \o toUpperCase(TypeChars[type])
        \o <<" ", "(", "s", "o", "u", "r", "c", "e", ":", " ">> \o url
        \o <<")", " ", "-", "-", "-">>

EndMarker(type) ==
    <<"-", "-", "-", " ", "E", "N", "D", " ">>
        \o toUpperCase(TypeChars[type]) \o <<" ", "-", "-", "-">>

SourceMarker(url) ==
    <<"(", "s", "o", "u", "r", "c", "e", ":", " ">> \o url \o <<")">>

(***************************************************************************)
(* C19. In scrapeVendorDocuments a fetch failure for one canonical URL is  *)
(* recorded in the error list with that URL and does not stop the          *)
(* remaining fetches: every canonical URL is fetched, and in a returned    *)
(* result documents plus recorded fetch errors number as many as the       *)
(* canonical URLs, and combinedText has a delimiter block for each         *)
(* fetched document and none for a failed one.                             *)
(***************************************************************************)
C19_FetchFailureRecorded ==
    (spc = "done" /\ Len(legalPages) > 0) =>
        /\ Cardinality(ScrapeCalls) = Len(legalPages)
        /\ {clientCalls[k].url : k \in ScrapeCalls}
              = {legalPages[k].url : k \in 1..Len(legalPages)}
        /\ \A k \in ScrapeCalls \ FetchedCalls :
              \E e \in 1..Len(errors) : errors[e].url = clientCalls[k].url
        /\ outcome.kind = "returned" =>
              /\ Len(outcome.value.documents) + Len(outcome.value.errors)
                    = Len(legalPages)
              /\ {outcome.value.errors[e].url : e \in 1..Len(outcome.value.errors)}
                    = {clientCalls[k].url : k \in ScrapeCalls \ FetchedCalls}
              /\ \A k \in 1..Len(legalPages) :
                    IF \E c \in FetchedCalls : clientCalls[c].url = legalPages[k].url
                    THEN /\ includes(outcome.value.combinedText,
                                     BeginMarker(legalPages[k].type, legalPages[k].url))
                         /\ includes(outcome.value.combinedText,
                                     EndMarker(legalPages[k].type))
                    ELSE ~includes(outcome.value.combinedText,
                                   SourceMarker(legalPages[k].url))

\* The first canonical URL failed, later ones were still fetched: a result
\* with two documents and two recorded errors.
C19_Witness ==
    /\ spc = "done"
    /\ outcome.kind = "returned"
    /\ Len(outcome.value.documents) = 2
    /\ Len(outcome.value.errors) = 2
    /\ outcome.value.errors[1].url = legalPages[1].url
    /\ clientCalls[2].settled = "rejected"

(***************************************************************************)
(* C20. Once input validation and link discovery have passed,              *)
(* scrapeVendorDocuments succeeds if and only if at least one canonical    *)
(* URL is fetched successfully; when every fetch fails it throws the       *)
(* all-fetches-failed error, so a returned result always has a non-empty   *)
(* documents list.                                                         *)
(***************************************************************************)
C20_SuccessIffSomeFetch ==
    /\ (spc = "done" /\ Len(legalPages) > 0) =>
          /\ (outcome.kind = "returned") <=> (FetchedCalls # {})
          /\ FetchedCalls = {} =>
                /\ outcome.kind = "thrown"
                /\ outcome.name = "ScrapeError"
                /\ outcome.message.text
                      = "All scrape attempts failed for ${hostname}. Errors: ${errors}"
    /\ outcome.kind = "returned" => Len(outcome.value.documents) > 0
    /\ (spc # "done" \/ Len(legalPages) = 0) => outcome.kind # "returned"

\* All four fetches failed and the run ended with the error.
C20_Witness ==
    /\ spc = "done"
    /\ Cardinality(ScrapeCalls) = 4
    /\ FetchedCalls = {}
    /\ outcome.kind = "thrown"
    /\ Len(outcome.message.errors) = 4

\* The client.map calls made so far.
MapCalls == {k \in 1..Len(clientCalls) : clientCalls[k].op = "map"}

(***************************************************************************)
(* C21. When client.map returns zero links, scrapeVendorDocuments fails    *)
(* with the no-links error naming the root URL and fetches no page at all: *)
(* the fallback paths are not tried either.                                *)
(***************************************************************************)
C21_NoLinksNoFetch ==
    (\E k \in MapCalls : clientCalls[k].settled = "no links") =>
        /\ spc = "done"
        /\ outcome.kind = "thrown"
        /\ outcome.name = "ScrapeError"
        /\ outcome.message.text
              = "Firecrawl map returned no links for ${rootUrl}. The site may be blocking crawlers."
        /\ outcome.message.rootUrl = rootUrl
        /\ ScrapeCalls = {}
        /\ legalPages = <<>>

\* A bare domain was accepted, discovery answered without links and the run
\* ended after that single client call.
C21_Witness ==
    /\ inputUrl = bare_domain
    /\ Len(clientCalls) = 1
    /\ clientCalls[1] = [op |-> "map", url |-> Origin, settled |-> "no links"]
    /\ spc = "done"

\* String.prototype.indexOf, counted from 1; 0 when w does not occur.
indexOf(s, w) ==
    IF includes(s, w)
    THEN CHOOSE p \in 1..Len(s) :
            /\ OccursAt(s, p, w)
            /\ \A q \in 1..(p - 1) : ~OccursAt(s, q, w)
    ELSE 0

\* The place of a document type in the category table.
CategoryRank(type) ==
    CHOOSE k \in 1..Len(LEGAL_PATH_PATTERNS) : LEGAL_PATH_PATTERNS[k].type = type

(***************************************************************************)
(* C22. In a returned result combinedText lists the fetched documents in   *)
(* the order of the category table (tos, privacy, dpa, subprocessor),      *)
(* whatever the order in which client.map listed the links: the block of   *)
(* a document of an earlier category begins before the block of a          *)
(* document of a later category.                                           *)
(***************************************************************************)
C22_CategoryOrder ==
    outcome.kind = "returned" =>
        LET docs == outcome.value.documents
            text == outcome.value.combinedText
        IN  \A j, k \in 1..Len(docs) :
                CategoryRank(docs[j].type) < CategoryRank(docs[k].type) =>
                    indexOf(text, BeginMarker(docs[j].type, docs[j].sourceUrl))
                      < indexOf(text, BeginMarker(docs[k].type, docs[k].sourceUrl))

\* The message names a rule that the input violates: the scheme rule, the
\* address rule, or that the input is no URL at all.
NamesViolatedRule(thrown, input) ==
    \/ /\ input \in NonHttpsInputs
       /\ thrown = Thrown("Error", [text |-> "Invalid URL: ${message}",
                                    message |-> "Only HTTPS URLs are allowed"])
    \/ /\ input \in PrivateInputs
       /\ thrown = Thrown("Error", [text |-> "Invalid URL: ${message}",
                                    message |-> "Private or internal URLs are not allowed"])
    \/ /\ input \in MalformedInputs
       /\ \/ thrown = Thrown("Error", [text |-> "Invalid URL: ${message}",
                                       message |-> "Input must be a valid URL"])
          \/ thrown = Thrown("TypeError", [text |-> "Invalid URL"])

(***************************************************************************)
(* C23. scrapeVendorDocuments validates its input before anything else:    *)
(* for an input over plain HTTP, naming a private or internal host, or     *)
(* malformed, no client.map and no client.scrape call is ever made, the    *)
(* first step ends the run, and the error thrown names a rule the input    *)
(* violates; a client call is only ever made for an input that passed.     *)
(***************************************************************************)
C23_ValidationFirst ==
    /\ inputUrl \in NonHttpsInputs \cup PrivateInputs \cup MalformedInputs =>
          /\ clientCalls = <<>>
          /\ spc \in {"start", "done"}
          /\ spc = "done" => NamesViolatedRule(outcome, inputUrl)
    /\ clientCalls # <<>> =>
          /\ inputUrl \in {Origin, bare_domain}
          /\ rootUrl = Origin

\* The input without a host was refused by the TypeError of new URL, with
\* no client call made.
C23_Witness ==
    /\ inputUrl \in MalformedInputs
    /\ spc = "done"
    /\ outcome = Thrown("TypeError", [text |-> "Invalid URL"])
    /\ clientCalls = <<>>

\* The address lies in 10.0.0.0/8, 172.16.0.0/12, 192.168.0.0/16,
\* 127.0.0.0/8 or 169.254.0.0/16, or is 0.0.0.0.
PrivateQuad(q) ==
    \/ q[1] = 10
    \/ q[1] = 172 /\ q[2] \div 16 = 1
    \/ q[1] = 192 /\ q[2] = 168
    \/ q[1] = 127
    \/ q[1] = 169 /\ q[2] = 254
    \/ q = <<0, 0, 0, 0>>

RejectedAsPrivate ==
    /\ spc = "done"
    /\ outcome = Thrown("Error",
                        [text |-> "Invalid URL: ${message}",
                         message |-> "Private or internal URLs are not allowed"])

(***************************************************************************)
(* C24. sanitizeUrl rejects with the private/internal message every https  *)
(* URL whose host is an IPv4 address in 10.0.0.0/8, 172.16.0.0/12,         *)
(* 192.168.0.0/16, 127.0.0.0/8 or 169.254.0.0/16, or is 0.0.0.0, the IPv6  *)
(* loopback, localhost, or a name ending in .local or .internal; it        *)
(* accepts https://example.com, and accepts the bare example.com as        *)
(* https://example.com.                                                    *)
(***************************************************************************)
C24_PrivateHostsRejected ==
    spc # "start" =>
        /\ \A f \in Ipv4Forms :
              (inputUrl = scheme_https \o f.rest /\ PrivateQuad(f.quad))
                  => RejectedAsPrivate
        /\ inputUrl \in {scheme_https \o n : n \in InternalNames}
              => RejectedAsPrivate
        /\ inputUrl \in {example_com, scheme_https \o example_com} =>
              /\ spc = "map"
              /\ outcome.kind = "none"
              /\ rootUrl = scheme_https \o example_com
              /\ hostname = example_com

\* The last address of 172.16.0.0/12 was refused.
C24_Witness ==
    /\ inputUrl = scheme_https \o dotted(<<172, 31, 255, 255>>)
    /\ RejectedAsPrivate

(***************************************************************************)
(* C25. For every scorecard S, diffScorecards(S, S) has overallRiskChanged *)
(* false and empty categoryChanges, newFindings and removedFindings.       *)
(***************************************************************************)
C25_SelfDiffEmpty ==
    (diffReturned.kind = "returned" /\ diffPrevious = diffCurrent) =>
        /\ diffReturned.value.overallRiskChanged = FALSE
        /\ diffReturned.value.categoryChanges = <<>>
        /\ diffReturned.value.newFindings = <<>>
        /\ diffReturned.value.removedFindings = <<>>

\* A scorecard with findings in all three categories was compared with
\* itself.
C25_Witness ==
    /\ diffReturned.kind = "returned"
    /\ diffPrevious = diffCurrent
    /\ \A key \in Range(CATEGORY_KEYS) :
          Len(diffCurrent.categories[key].findings) > 0
    /\ diffCurrent.overallRiskLevel = "HIGH"

(***************************************************************************)
(* C26. For every scorecard S, diffScorecards(null, S) has                 *)
(* overallRiskChanged true and previousRisk null, its newFindings are, as  *)
(* a set, all finding titles of S, its removedFindings are empty, and      *)
(* categoryChanges has one entry for each of the three categories.         *)
(***************************************************************************)
C26_InitialDiff ==
    (diffReturned.kind = "returned" /\ diffPrevious = NullScorecard) =>
        LET d == diffReturned.value
        IN /\ d.overallRiskChanged = TRUE
           /\ d.previousRisk = NullRisk
           /\ Range(d.newFindings) = TitleSet(diffCurrent)
           /\ d.removedFindings = <<>>
           /\ Len(d.categoryChanges) = 3
           /\ \A key \in {"aiTraining", "subProcessors", "telemetryRetention"} :
                 \E k \in 1..3 :
                    d.categoryChanges[k]
                      = [category |-> key, previousRisk |-> NullRisk,
                         currentRisk |-> diffCurrent.categories[key].riskLevel]

\* The first scorecard of a vendor, with the title T1 in two categories and
\* T2 in two: both titles are new.
C26_Witness ==
    /\ diffReturned.kind = "returned"
    /\ diffPrevious = NullScorecard
    /\ Len(diffCurrent.categories.aiTraining.findings) = 2
    /\ Len(diffCurrent.categories.subProcessors.findings) = 1
    /\ Len(diffCurrent.categories.telemetryRetention.findings) = 1
    /\ Range(diffReturned.value.newFindings) = {"T1", "T2"}

(***************************************************************************)
(* C27. With a previous scorecard, diffScorecards sets overallRiskChanged  *)
(* exactly when the two overall levels differ, reports them as             *)
(* previousRisk and currentRisk, and categoryChanges holds, in the order   *)
(* aiTraining, subProcessors, telemetryRetention, exactly the categories   *)
(* whose level differs, each with its previous and its current level.      *)
(***************************************************************************)
C27_LevelChanges ==
    (diffReturned.kind = "returned" /\ diffPrevious # NullScorecard) =>
        LET d == diffReturned.value
            LevelDiffers(key) ==
                diffPrevious.categories[key].riskLevel
                    # diffCurrent.categories[key].riskLevel
            changed == SelectSeq(<<"aiTraining", "subProcessors",
                                   "telemetryRetention">>, LevelDiffers)
        IN /\ d.overallRiskChanged
                <=> (diffPrevious.overallRiskLevel # diffCurrent.overallRiskLevel)
           /\ d.previousRisk = diffPrevious.overallRiskLevel
           /\ d.currentRisk = diffCurrent.overallRiskLevel
           /\ d.categoryChanges
                = [k \in 1..Len(changed) |->
                     [category |-> changed[k],
                      previousRisk |-> diffPrevious.categories[changed[k]].riskLevel,
                      currentRisk |-> diffCurrent.categories[changed[k]].riskLevel]]

\* The overall level is the same, the first and the third category changed
\* their level, the second did not.
C27_Witness ==
    /\ diffReturned.kind = "returned"
    /\ diffPrevious # NullScorecard
    /\ diffPrevious.overallRiskLevel = diffCurrent.overallRiskLevel
    /\ Len(diffReturned.value.categoryChanges) = 2
    /\ diffReturned.value.categoryChanges[1].category = "aiTraining"
    /\ diffReturned.value.categoryChanges[2].category = "telemetryRetention"

\* The titles of the previous scorecard; none when there is no scorecard.
PreviousTitleSet ==
    IF diffPrevious = NullScorecard THEN {} ELSE TitleSet(diffPrevious)

(***************************************************************************)
(* C28. newFindings and removedFindings are set differences over the       *)
(* titles of all three categories taken together: newFindings is the       *)
(* titles of current without those of previous, removedFindings the titles *)
(* of previous without those of current.  No title is in both lists, and a *)
(* title that both scorecards hold, in whatever category, is in neither.   *)
(***************************************************************************)
C28_FindingSetDifference ==
    diffReturned.kind = "returned" =>
        LET d == diffReturned.value
        IN /\ Range(d.newFindings) = TitleSet(diffCurrent) \ PreviousTitleSet
           /\ Range(d.removedFindings) = PreviousTitleSet \ TitleSet(diffCurrent)
           /\ Range(d.newFindings) \cap Range(d.removedFindings) = {}
           /\ \A t \in PreviousTitleSet \cap TitleSet(diffCurrent) :
                 t \notin Range(d.newFindings) \cup Range(d.removedFindings)

\* T2 moved from the first category to the third and T1 went away: T1 is
\* removed, T2 is not, nothing is new.
C28_Witness ==
    /\ diffReturned.kind = "returned"
    /\ diffPrevious # NullScorecard
    /\ Len(diffPrevious.categories.aiTraining.findings) = 2
    /\ diffPrevious.categories.subProcessors.findings = <<>>
    /\ diffPrevious.categories.telemetryRetention.findings = <<>>
    /\ TitleSet(diffCurrent) = {"T2"}
    /\ diffCurrent.categories.aiTraining.findings = <<>>
    /\ diffReturned.value.removedFindings = <<"T1">>
    /\ diffReturned.value.newFindings = <<>>

\* The type the classification loop gave a link: that of its entry in
\* matched, or none.
ClassOf(url) ==
    IF \E k \in 1..Len(matched) : matched[k].url = url
    THEN matched[CHOOSE k \in 1..Len(matched) : matched[k].url = url].type
    ELSE NullType

\* The categories, by their place in the table, whose pattern matches the
\* path of the URL.
PathCategories(url) ==
    {p \in 1..Len(LEGAL_PATH_PATTERNS) :
        PatternTest(LEGAL_PATH_PATTERNS[p].pattern, pathname(url))}

(***************************************************************************)
(* C29. The result of classifyUrl depends on the path of the URL only:     *)
(* two links with the same path get the same class whatever their host,    *)
(* and a link whose path matches no pattern is not classified.             *)
(***************************************************************************)
C29_PathOnly ==
    spc # "links" =>
        /\ \A j, k \in 1..Len(links) :
              pathname(links[j]) = pathname(links[k])
                  => ClassOf(links[j]) = ClassOf(links[k])
        /\ \A k \in 1..Len(links) :
              PathCategories(links[k]) = {} => ClassOf(links[k]) = NullType

\* The URLs of a list of classified links.
UrlsOf(entries) == {entries[k].url : k \in 1..Len(entries)}

(***************************************************************************)
(* C30. A link whose path matches the patterns of several categories gets  *)
(* the first of them in the order tos, privacy, dpa, subprocessor; a link  *)
(* whose path matches none, such as a bare /legal or /policies index page, *)
(* is dropped before deduplication: it is not among the classified links,  *)
(* not among the discovered pages and not among the pages to fetch.        *)
(***************************************************************************)
C30_FirstMatchOrDropped ==
    spc # "links" =>
        \A k \in 1..Len(links) :
            IF PathCategories(links[k]) # {}
            THEN ClassOf(links[k])
                    = <<"tos", "privacy", "dpa", "subprocessor">>[
                          CHOOSE p \in PathCategories(links[k]) :
                              \A q \in PathCategories(links[k]) : p <= q]
            ELSE /\ links[k] \notin UrlsOf(matched)
                 /\ links[k] \notin UrlsOf(discoveredPages)
                 /\ links[k] \notin UrlsOf(legalPages)

(***************************************************************************)
(* C31. For any number of candidates of one category in any order, the URL *)
(* deduplicateByType keeps for the category is non-localized if any        *)
(* candidate is and localized otherwise, and no candidate of that same     *)
(* localization status is strictly shorter than it.                        *)
(***************************************************************************)
C31_ShortestOfWinningStatus ==
    spc \in {"discovered", "merged"} =>
        \A type \in TypesOf(matched) :
            \A kept \in CandidatesOf(discoveredPages, type) :
                LET winners ==
                        IF CandidatesOf(matched, type) \cap PlainLinks # {}
                        THEN CandidatesOf(matched, type) \cap PlainLinks
                        ELSE CandidatesOf(matched, type) \cap LocalizedLinks
                IN /\ kept \in winners
                   /\ \A c \in winners : Len(kept) <= Len(c)

\* Three terms pages, the longest non-localized one first, then a shorter
\* localized one, then the shortest non-localized one, which is kept.
C31_Witness ==
    /\ spc = "discovered"
    /\ matched = <<Entry(Plain(path_terms_of_use)),
                   Entry(Localized(locale_de, path_tos)),
                   Entry(Plain(path_terms))>>
    /\ discoveredPages = <<Entry(Plain(path_terms))>>

(***************************************************************************)
(* Discovered links next to the fallback of their category: shorter,       *)
(* longer, of the same length, the same URL, and under a locale segment.   *)
(***************************************************************************)
path_legal_subprocessors ==
    <<"/", "l", "e", "g", "a", "l", "/",
      "s", "u", "b", "p", "r", "o", "c", "e", "s", "s", "o", "r", "s">>

path_subprocessor_dir ==
    <<"/", "s", "u", "b", "p", "r", "o", "c", "e", "s", "s", "o", "r", "/">>

MergeLinks ==
    {Plain(path_terms), Localized(locale_de, path_tos),
     Localized(locale_de_DE, path_privacy),
     Plain(path_legal_subprocessors), Plain(path_subprocessor_dir),
     Plain(FirstPath("subprocessor"))}

InitMerge ==
    /\ InitStore({"A"})
    /\ pool = MonitorPool
    /\ overlap = FALSE
    /\ InitLocals
    /\ InitDiff
    /\ inputUrl = Origin
    /\ rootUrl = Origin
    /\ hostname = <<>>
    /\ links = <<>>
    /\ matched \in SeqsUpTo({Entry(u) : u \in MergeLinks}, MaxLinks)
    /\ discoveredPages = <<>>
    /\ legalPages = <<>>
    /\ page = 1
    /\ documents = <<>>
    /\ errors = <<>>
    /\ outcome = [kind |-> "none"]
    /\ spc = "matched"
    /\ clientCalls = <<>>

SpecMerge == InitMerge /\ [][DedupNext]_vars

\* The fallback URL mergeWithFallbacks builds for a type.
FallbackUrl(type) == rootUrl \o FirstPath(type)

(***************************************************************************)
(* C32. After mergeWithFallbacks the URL of a category is the fallback     *)
(* (root URL plus the first conventional path) when discovery found no URL *)
(* for the category, or the discovered URL is localized, or the discovered *)
(* non-localized URL is strictly longer than the fallback; in every other  *)
(* case it is the discovered URL.                                          *)
(***************************************************************************)
C32_FallbackExactlyWhen ==
    spc = "merged" =>
        \A type \in {"tos", "privacy", "dpa", "subprocessor"} :
            LET found == CandidatesOf(discoveredPages, type)
                fallbackWins ==
                    \/ found = {}
                    \/ \E d \in found : isLocalizedUrl(d)
                    \/ \E d \in found : Len(d) > Len(FallbackUrl(type))
            IN /\ fallbackWins =>
                    CandidatesOf(legalPages, type) = {FallbackUrl(type)}
               /\ ~fallbackWins =>
                    CandidatesOf(legalPages, type) = found

\* A discovered subprocessor page as long as the fallback is kept, a
\* localized terms page gives way to the fallback, and so does nothing found.
C32_Witness ==
    /\ spc = "merged"
    /\ discoveredPages = <<Entry(Localized(locale_de, path_tos)),
                           Entry(Plain(path_subprocessor_dir))>>
    /\ Len(Plain(path_subprocessor_dir)) = Len(FallbackUrl("subprocessor"))
    /\ CandidatesOf(legalPages, "subprocessor") = {Plain(path_subprocessor_dir)}
    /\ CandidatesOf(legalPages, "tos") = {FallbackUrl("tos")}
    /\ CandidatesOf(legalPages, "privacy") = {FallbackUrl("privacy")}

\* The URLs of the client.scrape calls, in the order of the calls.
RECURSIVE ScrapedUrlsFrom(_)
ScrapedUrlsFrom(k) ==
    IF k > Len(clientCalls) THEN <<>>
    ELSE (IF clientCalls[k].op = "scrape" THEN <<clientCalls[k].url>> ELSE <<>>)
            \o ScrapedUrlsFrom(k + 1)

\* The run ended with the no-legal-pages error of lines 320-324.
NoLegalPagesError ==
    /\ outcome.kind = "thrown"
    /\ outcome.message.text
          = "No legal document pages (terms, privacy, DPA) found on ${hostname}. The site may use non-standard URL patterns or block crawlers."

(***************************************************************************)
(* C33. When client.map returns at least one link and classifyUrl gives no *)
(* type to any of them, scrapeVendorDocuments goes on to fetch the four    *)
(* fallback URLs (root URL plus the first path of tos, privacy, dpa and    *)
(* subprocessor) and, when all four fetches fail, throws the               *)
(* all-scrape-attempts-failed error; no run ends with the                  *)
(* no-legal-document-pages error.                                          *)
(***************************************************************************)
C33_FallbacksWhenNothingClassified ==
    /\ ~NoLegalPagesError
    /\ (Len(links) > 0 /\ matched = <<>>) =>
          /\ [k \in 1..Len(legalPages) |-> legalPages[k].url]
                = <<FallbackUrl("tos"), FallbackUrl("privacy"),
                    FallbackUrl("dpa"), FallbackUrl("subprocessor")>>
          /\ spc = "done" =>
                /\ ScrapedUrlsFrom(1)
                      = <<FallbackUrl("tos"), FallbackUrl("privacy"),
                          FallbackUrl("dpa"), FallbackUrl("subprocessor")>>
                /\ FetchedCalls = {} =>
                      /\ outcome.kind = "thrown"
                      /\ outcome.name = "ScrapeError"
                      /\ outcome.message.text
                            = "All scrape attempts failed for ${hostname}. Errors: ${errors}"

\* The only link listed is an index page no pattern matches; the four
\* fallback URLs were fetched, all failed, and the run ended with the error.
C33_Witness ==
    /\ spc = "done"
    /\ links = <<Plain(path_legal)>>
    /\ matched = <<>>
    /\ Cardinality(ScrapeCalls) = 4
    /\ FetchedCalls = {}
    /\ outcome.kind = "thrown"
    /\ outcome.message.text
          = "All scrape attempts failed for ${hostname}. Errors: ${errors}"

(***************************************************************************)
(* Either the monitor cycle over two tracked vendors is followed, or one   *)
(* scrapeVendorDocuments call while no vendor is tracked and the triggers  *)
(* of the cycle find nothing to do.                                        *)
(***************************************************************************)
InitCycle ==
    /\ InitStore({"A", "B"})
    /\ pool = MonitorPool
    /\ overlap = FALSE
    /\ InitLocals
    /\ InitDiff
    /\ InitScraper

InitScrapeAlone ==
    /\ vendorTable = <<>>
    /\ rotatedAt = <<>>
    /\ auditLog = <<>>
    /\ now = MaxTicks * TickMs
    /\ pool = MonitorPool
    /\ overlap = FALSE
    /\ InitLocals
    /\ InitDiff
    /\ inputUrl \in InputUrls
    /\ rootUrl = <<>>
    /\ hostname = <<>>
    /\ links = <<>>
    /\ matched = <<>>
    /\ discoveredPages = <<>>
    /\ legalPages = <<>>
    /\ page = 1
    /\ documents = <<>>
    /\ errors = <<>>
    /\ outcome = [kind |-> "none"]
    /\ spc = "start"
    /\ clientCalls = <<>>

SpecRuns == (InitCycle \/ InitScrapeAlone) /\ [][Next \/ ScrapeNext]_vars

\* The client.scrape calls made for URL u in the scrape run followed.
FetchesOf(u) == {k \in ScrapeCalls : clientCalls[k].url = u}

(***************************************************************************)
(* C34. Within one scrapeVendorDocuments run every URL is fetched at most  *)
(* once (and client.map is called at most once); within one invocation of  *)
(* runMonitorCycle every selected vendor is selected once and gets at most *)
(* one call of each awaited operation, in particular at most one discovery *)
(* call and at most one extraction call, so nothing that failed is tried   *)
(* again; and the extraction is called for a vendor only after a discovery *)
(* call for that vendor that succeeded.                                    *)
(***************************************************************************)
C34_AtMostOnce ==
    /\ \A k \in ScrapeCalls : FetchesOf(clientCalls[k].url) = {k}
    /\ Cardinality(MapCalls) <= 1
    /\ \A i \in Invocations :
          /\ \A j, k \in 1..Len(vendors[i]) :
                vendors[i][j].id = vendors[i][k].id => j = k
          /\ \A k \in 1..Len(calls[i]) :
                /\ calls[i][k].vendorId \in SelectedIds(i)
                /\ CallsOf(i, calls[i][k].op, calls[i][k].vendorId) = {k}
                /\ calls[i][k].op = "generateObject" =>
                      \E s \in 1..(k - 1) :
                          /\ calls[i][s].op = "scrapeVendorDocuments"
                          /\ calls[i][s].vendorId = calls[i][k].vendorId
                          /\ calls[i][s].ok

\* The discovery of the first vendor failed and the extraction of the
\* second one failed; the invocation ended with two calls for the second
\* vendor and one for the first.
C34_Witness ==
    /\ pc[1] = "done"
    /\ Len(vendors[1]) = 2
    /\ Len(calls[1]) = 3
    /\ ~calls[1][1].ok
    /\ calls[1][3].op = "generateObject"
    /\ ~calls[1][3].ok
    /\ Len(result[1].errors) = 2

(***************************************************************************)
(* A site whose listed links leave the guarded ground: besides its terms   *)
(* page client.map lists a privacy page over plain HTTP and a privacy page *)
(* on an internal host.                                                    *)
(***************************************************************************)
ListedLinks ==
    {Plain(path_terms),
     scheme_http \o bare_domain \o path_privacy,
     scheme_https \o host_localhost \o path_privacy}

FetchNext ==
    \/ SanitizeFail \/ NoApiKey \/ SanitizeOk
    \/ MapOkFrom(ListedLinks) \/ MapEmpty \/ MapReject
    \/ ScrapePageOk \/ ScrapePageEmpty \/ ScrapePageReject

SpecFetch == InitScrape /\ [][FetchNext]_vars

\* The guard of sanitizeUrl applied to a URL: HTTPS and no private host.
PassesGuard(url) == Strict(safeParse, url).ok

(***************************************************************************)
(* C35. Every URL that scrapeVendorDocuments passes to client.scrape       *)
(* passes the guard of the input URL (HTTPS scheme, no private, loopback,   *)
(* link-local or internal host), the URLs taken from the links that        *)
(* client.map listed included.                                             *)
(***************************************************************************)
C35_FetchedUrlsGuarded ==
    \A k \in ScrapeCalls : PassesGuard(clientCalls[k].url)

(***************************************************************************)
(* C36. In every result runMonitorCycle returns, scanned is the number of  *)
(* vendors selected and changed + length(errors) <= scanned (a selected    *)
(* vendor counts toward changed or toward errors, never toward both), also *)
(* when an audit write or a rotation fails.                                *)
(***************************************************************************)
C36_CountsDisjoint ==
    \A i \in Invocations : pc[i] = "done" =>
        /\ result[i].scanned = Len(vendors[i])
        /\ result[i].changed + Len(result[i].errors) <= result[i].scanned

(***************************************************************************)
(* Two invocations of runMonitorCycle that may overlap in time (a trigger  *)
(* fired while the previous run is still in its loop), one tracked vendor. *)
(***************************************************************************)
InitOverlap ==
    /\ InitStore({"A"})
    /\ pool = MonitorPool
    /\ overlap = TRUE
    /\ InitLocals
    /\ InitDiff
    /\ InitScraper

SpecOverlap == InitOverlap /\ [][Next]_vars

\* Invocation i made a call of op for vendor v that succeeded.
Succeeded(i, op, v) == \E k \in CallsOf(i, op, v) : calls[i][k].ok

(***************************************************************************)
(* C37. When two invocations of runMonitorCycle overlap in time, no vendor *)
(* is in the batch of both, no vendor's change is audited by both and no   *)
(* vendor's state is rotated by both.                                      *)
(***************************************************************************)
C37_NoVendorInBoth ==
    \A i, j \in Invocations :
        (i # j /\ pc[i] # "idle" /\ pc[j] # "idle") =>
            \A v \in DOMAIN vendorTable :
                /\ ~(v \in SelectedIds(i) /\ v \in SelectedIds(j))
                /\ ~(Succeeded(i, "auditLog.create", v)
                        /\ Succeeded(j, "auditLog.create", v))
                /\ ~(Succeeded(i, "vendor.update", v)
                        /\ Succeeded(j, "vendor.update", v))

(***************************************************************************)
(* One tracked vendor whose documents yield the same findings and levels   *)
(* again and again, told with another severity or another summary.         *)
(***************************************************************************)
withFindingRevised ==
    MkScorecard("LOW",
                CategoryResult("LOW", <<Finding("New Risk Found", "MEDIUM")>>),
                NoFindings("LOW"), NoFindings("LOW"), "Low risk.")

withFindingReworded ==
    MkScorecard("LOW",
                CategoryResult("LOW", <<Finding("New Risk Found", "HIGH")>>),
                NoFindings("LOW"), NoFindings("LOW"), "Low risk, reworded.")

RevisionPool == {withFinding, withFindingRevised, withFindingReworded}

InitRevisions ==
    /\ InitStore({"A"})
    /\ pool = RevisionPool
    /\ overlap = FALSE
    /\ InitLocals
    /\ InitDiff
    /\ InitScraper

SpecRevisions == InitRevisions /\ [][Next]_vars

\* The titles of a category's findings, in their order.
TitlesIn(sc, key) ==
    [k \in 1..Len(sc.categories[key].findings) |->
        sc.categories[key].findings[k].title]

\* Two scorecards that differ, but in no level and in no title.
DifferOnlyInUnreadFields(previous, current) ==
    /\ previous # NullScorecard
    /\ previous # current
    /\ previous.overallRiskLevel = current.overallRiskLevel
    /\ \A key \in Range(CATEGORY_KEYS) :
          /\ previous.categories[key].riskLevel = current.categories[key].riskLevel
          /\ TitlesIn(previous, key) = TitlesIn(current, key)

(***************************************************************************)
(* C38. A run whose new scorecard differs from the stored one only in      *)
(* fields the diff does not read (the severity of a finding under an       *)
(* unchanged title, the summary) is not material: after validation the run *)
(* goes to the rotation without an audit write, and the rotation stores    *)
(* the new scorecard while the audit log stays as it was.                  *)
(***************************************************************************)
C38_UnreadFieldsNotMaterial ==
    [][\A i \in Invocations :
          /\ (/\ pc[i] = "validate"
              /\ pc'[i] \in {"audit", "rotate"}
              /\ DifferOnlyInUnreadFields(previousScorecardOf(i), validated'[i]))
             => (pc'[i] = "rotate" /\ auditLog' = auditLog)
          /\ (/\ pc[i] = "rotate"
              /\ DifferOnlyInUnreadFields(previousScorecardOf(i), validated[i])
              /\ result'[i].scanned = result[i].scanned + 1
              /\ result'[i].errors = result[i].errors)
             => /\ CallsOf(i, "auditLog.create", vendor(i).id) = {}
                /\ auditLog' = auditLog
                /\ vendorTable'[vendor(i).id].latestScorecard = validated[i]
                /\ vendorTable'[vendor(i).id].previousScorecard
                      = previousScorecardOf(i)]_vars

\* The vendor was first scanned with one severity and then rotated to the
\* scorecard with the other severity; the log holds the initial scan only.
C38_Witness ==
    /\ vendorTable["A"].previousScorecard = withFinding
    /\ vendorTable["A"].latestScorecard = withFindingRevised
    /\ Len(auditLog) = 1
    /\ auditLog[1].eventType = "initial_scan"

(***************************************************************************)
(* The two entry points that take a vendor URL: POST /api/analyze          *)
(* (src/app/api/analyze/route.ts), which hands the URL to                  *)
(* scrapeVendorDocuments, and POST /api/vendors                            *)
(* (src/app/api/vendors/route.ts), which hands it to sanitizeUrl.  The     *)
(* request carries inputUrl as its url field (the empty string when the    *)
(* field is empty); the response is kept in outcome.                       *)
(***************************************************************************)
Response(route, status, error) ==
    [kind |-> "response", route |-> route, status |-> status, error |-> error]

\* NextResponse.json(...) is returned: the handler is over.
Respond(response) ==
    /\ outcome' = response
    /\ spc' = "responded"
    /\ UNCHANGED diffVars
    /\ UNCHANGED <<inputUrl, rootUrl, hostname, links, matched,
                   discoveredPages, legalPages, page, documents, errors,
                   clientCalls>>

\* analyze, lines 162-177: the body is not JSON, or its url field is empty.
AnalyzeBadRequest ==
    /\ spc = "request"
    /\ \/ Respond(Response("analyze", 400, [text |-> "Invalid JSON in request body"]))
       \/ /\ Len(inputUrl) < 1
          /\ Respond(Response("analyze", 400, [text |-> "URL is required"]))
    /\ UNCHANGED monitorVars

\* analyze, lines 170 and 183: the body passes AnalyzeRequestSchema and
\* scrapeVendorDocuments(parsed.data.url) is awaited.
AnalyzeCallsScraper ==
    /\ spc = "request"
    /\ Len(inputUrl) >= 1
    /\ spc' = "start"
    /\ UNCHANGED monitorVars
    /\ UNCHANGED diffVars
    /\ UNCHANGED <<inputUrl, rootUrl, hostname, links, matched,
                   discoveredPages, legalPages, page, documents, errors,
                   outcome, clientCalls>>

\* analyze, lines 185-191: whatever scrapeVendorDocuments threw.
AnalyzeScrapeFailed ==
    /\ spc = "done"
    /\ outcome.kind = "thrown"
    /\ Respond(Response("analyze", 502,
                        [text |-> "Failed to scrape vendor documents: ${message}",
                         message |-> outcome.message]))
    /\ UNCHANGED monitorVars

\* analyze, lines 194-197: the scorecard is streamed.
AnalyzeStreams ==
    /\ spc = "done"
    /\ outcome.kind = "returned"
    /\ Respond(Response("analyze", 200, [text |-> ""]))
    /\ UNCHANGED monitorVars

\* analyze, lines 198-205: streamScorecard throws.
AnalyzeStreamFails ==
    /\ spc = "done"
    /\ outcome.kind = "returned"
    /\ Respond(Response("analyze", 500, [text |-> "Analysis failed: ${message}"]))
    /\ UNCHANGED monitorVars

\* vendors, lines 14-17: no organisation in the session.
VendorsUnauthorized ==
    /\ spc = "request"
    /\ Respond(Response("vendors", 401, [text |-> "Unauthorized"]))
    /\ UNCHANGED monitorVars

\* vendors, lines 19-35: the body is not JSON, or its url field is empty.
VendorsBadRequest ==
    /\ spc = "request"
    /\ \/ Respond(Response("vendors", 400, [text |-> "Invalid JSON in request body"]))
       \/ /\ Len(inputUrl) < 1
          /\ Respond(Response("vendors", 400, [text |-> "URL is required"]))
    /\ UNCHANGED monitorVars

\* vendors, lines 37-43: sanitizeUrl throws and the message is returned.
VendorsSanitizeFail ==
    /\ spc = "request"
    /\ Len(inputUrl) >= 1
    /\ \E thrown \in sanitizeUrlThrows(inputUrl) :
          Respond(Response("vendors", 400, thrown.message))
    /\ UNCHANGED monitorVars

\* vendors, lines 45-56: the vendor row is created with the sanitized URL.
VendorsCreate ==
    /\ spc = "request"
    /\ Len(inputUrl) >= 1
    /\ sanitizeUrl(inputUrl).ok
    /\ "N" \notin DOMAIN vendorTable
    /\ vendorTable' = [id \in DOMAIN vendorTable \cup {"N"} |->
                          IF id = "N" THEN NewVendor ELSE vendorTable[id]]
    /\ rotatedAt' = [id \in DOMAIN rotatedAt \cup {"N"} |->
                          IF id = "N" THEN NullTime ELSE rotatedAt[id]]
    /\ rootUrl' = sanitizeUrl(inputUrl).url
    /\ hostname' = sanitizeUrl(inputUrl).hostname
    /\ outcome' = Response("vendors", 201, [text |-> ""])
    /\ spc' = "responded"
    /\ UNCHANGED diffVars
    /\ UNCHANGED <<auditLog, now, pool, overlap, pc, vendors, idx, scorecard,
                   validated, result, startedAt, staleSeen, threw, calls>>
    /\ UNCHANGED <<inputUrl, links, matched, discoveredPages, legalPages,
                   page, documents, errors, clientCalls>>

\* vendors, lines 57-66: the URL is already in the workspace.
VendorsConflict ==
    /\ spc = "request"
    /\ Len(inputUrl) >= 1
    /\ sanitizeUrl(inputUrl).ok
    /\ Respond(Response("vendors", 409,
                        [text |-> "This vendor URL is already in your workspace"]))
    /\ UNCHANGED monitorVars

InitRoutes ==
    /\ InitStore({"A"})
    /\ pool = MonitorPool
    /\ overlap = FALSE
    /\ InitLocals
    /\ InitDiff
    /\ inputUrl \in InputUrls \cup {<<>>}
    /\ rootUrl = <<>>
    /\ hostname = <<>>
    /\ links = <<>>
    /\ matched = <<>>
    /\ discoveredPages = <<>>
    /\ legalPages = <<>>
    /\ page = 1
    /\ documents = <<>>
    /\ errors = <<>>
    /\ outcome = [kind |-> "none"]
    /\ spc = "request"
    /\ clientCalls = <<>>

RoutesNext ==
    \/ AnalyzeBadRequest \/ AnalyzeCallsScraper \/ ScrapeNext
    \/ AnalyzeScrapeFailed \/ AnalyzeStreams \/ AnalyzeStreamFails
    \/ VendorsUnauthorized \/ VendorsBadRequest \/ VendorsSanitizeFail
    \/ VendorsCreate \/ VendorsConflict

SpecRoutes == InitRoutes /\ [][RoutesNext]_vars

(***************************************************************************)
(* C39. On both entry points that take a vendor URL (POST /api/vendors and *)
(* POST /api/analyze) a URL that fails validation is answered with a       *)
(* validation error, a status in 400..499, and so not with the status 502  *)
(* that answers a failed discovery.                                        *)
(***************************************************************************)
C39_InvalidUrlIsClientError ==
    (spc = "responded" /\ ~sanitizeUrl(inputUrl).ok) =>
        /\ outcome.status >= 400
        /\ outcome.status <= 499

====
